---- MODULE Spec2Model ----
(***************************************************************************)
(* Conversation tree with ghost branches (0x4133/onion_layers).            *)
(*                                                                         *)
(* The model follows the Flask routes of src/app.py ("the route            *)
(* implementation"): every request loads the whole tree document from      *)
(* TREE_MEMORY_FILE, mutates it in memory and writes it back, so the       *)
(* persisted document is the state.                                        *)
(*                                                                         *)
(* Specifications:                                                         *)
(*   Spec      requests served one after the other, every save succeeds    *)
(*   FailSpec  the same requests while save_tree_memory can fail           *)
(*   ConcSpec  two requests served at once, split at load and save         *)
(*   CtxSpec   direct calls of build_conversation_context on chains        *)
(*   ReadSpec  chats and edits with GET /api/tree and GET /api/node between *)
(*   TravSpec  direct calls of create_ghost_branch and remove_subtree on    *)
(*             stored trees that need not be well formed, step by step;     *)
(*             TravFairSpec adds that a call that can step does step        *)
(*   CtxLoopSpec  build_conversation_context, one step per iteration of    *)
(*             its while loop, on trees with any parent_id links;          *)
(*             CtxLoopFairSpec adds that a call that can step does step    *)
(*   ManagerSpec  the calls of a TreeMemoryManager object, whose nodes are *)
(*             objects shared by reference; ManagerFailSpec lets the       *)
(*             writes of its two files fail                                *)
(*   ResetSpec the routes with the listing of ghosts, or the manager, on   *)
(*             small trees, for the resets                                 *)
(*   ReplSpec  the REPL of src/main.py and its memory file                  *)
(*                                                                         *)
(* Abstractions: uuid4 identifiers are fresh naturals (next_node_id,       *)
(* next_ghost_id); timestamps and model_used are payload that no           *)
(* operation reads and are left out; texts are short strings, already      *)
(* stripped ("" is the text that strip() leaves empty); the lines typed at *)
(* the REPL are lists of characters.                                       *)
(***************************************************************************)
EXTENDS Integers, Sequences, FiniteSets, TLC

VARIABLES
    file_exists,     \* TREE_MEMORY_FILE exists on disk
    nodes,           \* document["nodes"]: node id -> node record
    root_id,         \* document["root_id"]
    has_ghost_key,   \* the document has a "ghost_branches" key
    ghost_branches,  \* document["ghost_branches"]: ghost id -> ghost record
    next_node_id,    \* the next uuid4 drawn for a node
    next_ghost_id,   \* the next uuid4 drawn for a ghost
    edit_count,      \* the number of edits served so far
    last,            \* the last request and its response
    pre,             \* the document the last request loaded
    file_corrupt,    \* TREE_MEMORY_FILE exists but does not parse as JSON
    disk,            \* what the next open-and-write of the file meets
    inflight,        \* requests being served at once: worker -> its locals
    ctx_tree,        \* tree_data["nodes"] handed to build_conversation_context
    ctx_call,        \* the last call of build_conversation_context
    edits_applied,   \* node id -> the number of successful edits of that node
    trav,            \* a direct call of a subtree traversal, step by step
    repl,            \* main.py: the REPL's memory and its memory file
    mgr              \* memory_manager: a TreeMemoryManager and its two files

\* the variables of the routes
routeVars == <<file_exists, nodes, root_id, has_ghost_key, ghost_branches,
               next_node_id, next_ghost_id, edit_count, edits_applied, last, pre,
               file_corrupt>>

vars == <<routeVars, disk, inflight, ctx_tree, ctx_call, trav, repl, mgr>>

----------------------------------------------------------------------------
(* Bounds of the model *)

MaxNodes == 3

MaxEdits == 2

\* the longest conversation handed to build_conversation_context directly
MaxPath == 11

\* the interactions of the REPL of main.py, all its runs together
MaxInteractions == 102

\* the nodes a TreeMemoryManager adds while writes can fail
MaxFailNodes == 2

\* the nodes of a tree handed to a direct call of a subtree traversal
MaxTravNodes == 4

\* the nested calls Python allows before it raises RecursionError: more than
\* the deepest tree of the model needs
RecursionLimit == 7

----------------------------------------------------------------------------
(* Values *)

None == 0

\* an identifier a client sends that was never issued by the server
NoSuchId == -1

\* request bodies of POST /api/chat: the stripped message, the model's answer.
\* Bodies that fail validation (an empty message, an edit with both texts
\* empty) are answered 400 before the tree is loaded and are not drawn.
ChatMessages == {"hi"}

ChatResponses == {"hello"}

\* request bodies of POST /api/node/<id>/edit: stripped user_input and ai_response
EditBodies == {<<"hi2", "">>}

EmptyMap == [x \in {} |-> 0]

\* d[k] = v
Put(d, k, v) == [x \in (DOMAIN d) \cup {k} |-> IF x = k THEN v ELSE d[x]]

\* for k in ks: del d[k]
Del(d, ks) == [x \in (DOMAIN d) \ ks |-> d[x]]

\* list.remove(x): drops the first occurrence
RECURSIVE ListRemove(_, _)
ListRemove(s, x) ==
    IF s = <<>> THEN <<>>
    ELSE IF Head(s) = x THEN Tail(s)
    ELSE <<Head(s)>> \o ListRemove(Tail(s), x)

Range(s) == {s[i] : i \in DOMAIN s}

Count(s, x) == Cardinality({i \in DOMAIN s : s[i] = x})

\* no subtree traversal has been called directly
NoTraversal ==
    [op |-> "none", tree |-> EmptyMap, node_id |-> None, preserve_root |-> TRUE,
     status |-> "none", stack |-> <<>>, visited |-> {}, copied |-> <<>>,
     descendants |-> <<>>, result |-> EmptyMap]

\* main.py is not running and has written no memory file
NoRepl == [running |-> FALSE, log |-> <<>>,
           file |-> [exists |-> FALSE, corrupt |-> FALSE, log |-> <<>>],
           said |-> 0, error |-> "none"]

\* TreeMemoryManager() constructed with neither of its files on disk
NoManager ==
    [tree |-> EmptyMap, root_id |-> None, heap |-> EmptyMap, ghosts |-> EmptyMap,
     tree_file |-> [exists |-> FALSE, corrupt |-> FALSE,
                    nodes |-> EmptyMap, root_id |-> None],
     ghost_file |-> [exists |-> FALSE, corrupt |-> FALSE, ghosts |-> EmptyMap],
     next_node_id |-> 1, next_ghost_id |-> 1, edit_count |-> 0,
     result |-> [op |-> "init", status |-> "ok", node_id |-> None,
                 ghost_id |-> None],
     before |-> [nodes |-> EmptyMap, ghosts |-> EmptyMap]]

----------------------------------------------------------------------------
(* Persistence *)

\* json.load(f) succeeds
FileReadable == file_exists /\ ~file_corrupt

\* load_tree_memory: the document, or the empty tree when there is no file
\* or when reading it raises
LoadNodes == IF FileReadable THEN nodes ELSE EmptyMap

LoadRootId == IF FileReadable THEN root_id ELSE None

LoadHasGhostKey == IF FileReadable THEN has_ghost_key ELSE TRUE

\* tree_data.get("ghost_branches", {})
LoadGhosts == IF FileReadable /\ has_ghost_key THEN ghost_branches ELSE EmptyMap

Loaded == [nodes |-> LoadNodes, root_id |-> LoadRootId, ghost_branches |-> LoadGhosts]

NoSave ==
    UNCHANGED <<file_exists, file_corrupt, nodes, root_id, has_ghost_key, ghost_branches>>

\* what open(TREE_MEMORY_FILE, "w") followed by json.dump can meet: both
\* succeed; open raises (the file is untouched); open has truncated the file
\* and the write raises (what is left does not parse)
DiskOutcomes == {"ok", "open_fails", "write_fails"}

\* save_tree_memory raises MemoryError
SaveFails == disk # "ok"

\* save_tree_memory(tree_data)
SaveTree(ns, r, hk, gs) ==
    IF disk = "ok"
    THEN /\ file_exists' = TRUE
         /\ file_corrupt' = FALSE
         /\ nodes' = ns
         /\ root_id' = r
         /\ has_ghost_key' = hk
         /\ ghost_branches' = gs
    ELSE IF disk = "open_fails"
    THEN NoSave
    ELSE /\ file_exists' = TRUE
         /\ file_corrupt' = TRUE
         /\ nodes' = EmptyMap
         /\ root_id' = None
         /\ has_ghost_key' = FALSE
         /\ ghost_branches' = EmptyMap

\* what a route handler leaves alone: the disk's condition, the other
\* requests, and the arguments of direct calls of build_conversation_context
Others == UNCHANGED <<disk, inflight, ctx_tree, ctx_call, trav, repl, mgr>>

\* the route that answered and its JSON response; an error response carries
\* only a message, so node_id and ghost_id are set by successful requests alone
Response(op, status) ==
    [op |-> op, status |-> status, node_id |-> None, ghost_id |-> None,
     children_removed |-> FALSE, children_ghosted |-> FALSE]

----------------------------------------------------------------------------
(* Subtree operations *)

\* a copy that stops at the node itself
CopySubtreeShallow(ns, current_id, visited) ==
    IF current_id \in visited \/ current_id \notin DOMAIN ns
    THEN visited
    ELSE visited \cup {current_id}

\* the ids copy_subtree has visited when it returns
RECURSIVE CopySubtree(_, _, _), CopyChildren(_, _, _)
CopySubtree(ns, current_id, visited) ==
    IF current_id \in visited \/ current_id \notin DOMAIN ns
    THEN visited
    ELSE CopyChildren(ns, ns[current_id].children, visited \cup {current_id})

CopyChildren(ns, children, visited) ==
    IF children = <<>> THEN visited
    ELSE CopyChildren(ns, Tail(children), CopySubtree(ns, Head(children), visited))

\* a ghost that leaves the anchor out of its nodes
CreateGhostBranchWithoutAnchor(ns, node_id, ghost_id) ==
    [id |-> ghost_id,
     original_node_id |-> node_id,
     root_id |-> node_id,
     nodes |-> [x \in CopySubtree(ns, node_id, {}) \ {node_id} |-> ns[x]]]

\* create_ghost_branch: the ghost record stored under the new ghost id
CreateGhostBranch(ns, node_id, ghost_id) ==
    [id |-> ghost_id,
     original_node_id |-> node_id,
     root_id |-> node_id,
     nodes |-> [x \in CopySubtree(ns, node_id, {}) |-> ns[x]]]

\* TreeMemoryManager._copy_subtree: the ids it copies
RECURSIVE ManagerCopySubtree(_, _)
ManagerCopySubtree(ns, current_id) ==
    IF current_id \notin DOMAIN ns THEN {}
    ELSE {current_id} \cup
         UNION {ManagerCopySubtree(ns, child_id) : child_id \in Range(ns[current_id].children)}

\* collect_descendants: the list of descendants, in visiting order
RECURSIVE CollectDescendants(_, _), CollectChildren(_, _)
CollectDescendants(ns, current_id) ==
    IF current_id \in DOMAIN ns
    THEN CollectChildren(ns, ns[current_id].children)
    ELSE <<>>

CollectChildren(ns, children) ==
    IF children = <<>> THEN <<>>
    ELSE <<Head(children)>> \o CollectDescendants(ns, Head(children))
         \o CollectChildren(ns, Tail(children))

\* a removal that deletes the direct children only
RemoveDirectChildren(ns, node_id) == Del(ns, Range(ns[node_id].children))

\* the loop that deletes the collected descendants
RemoveDescendants(ns, node_id) == Del(ns, Range(CollectDescendants(ns, node_id)))

\* a removal of the root node that leaves its id in its parent's children
RemoveRootKeepingLink(kept, node_id, preserve_root) ==
    IF node_id \notin DOMAIN kept THEN kept
    ELSE IF preserve_root
    THEN [kept EXCEPT ![node_id].children = <<>>]
    ELSE Del(kept, {node_id})

\* the end of remove_subtree, once the descendants are deleted: the root
\* node's children are cleared, or the root node is unlinked and deleted
RemoveRoot(kept, node_id, preserve_root) ==
    IF node_id \notin DOMAIN kept THEN kept
    ELSE IF preserve_root
    THEN [kept EXCEPT ![node_id].children = <<>>]
    ELSE LET parent_id == kept[node_id].parent_id
             unlinked ==
                 IF parent_id # None /\ parent_id \in DOMAIN kept
                 THEN [kept EXCEPT ![parent_id].children =
                           ListRemove(kept[parent_id].children, node_id)]
                 ELSE kept
         IN Del(unlinked, {node_id})

\* a removal that never preserves the root node
RemoveSubtreeWithRoot(ns, node_id, preserve_root) ==
    IF node_id \notin DOMAIN ns THEN ns
    ELSE RemoveRoot(RemoveDescendants(ns, node_id), node_id, FALSE)

\* remove_subtree(tree_data, node_id, preserve_root): the nodes map afterwards
RemoveSubtree(ns, node_id, preserve_root) ==
    IF node_id \notin DOMAIN ns THEN ns
    ELSE RemoveRoot(RemoveDescendants(ns, node_id), node_id, preserve_root)

----------------------------------------------------------------------------
(* Conversation context *)

\* context_parts[-10:]
ContextWindow == 10

\* the while loop: the nodes from current_id up along parent_id, nearest first
RECURSIVE PathFromNode(_, _)
PathFromNode(ns, current_id) ==
    IF current_id = None THEN <<>>
    ELSE IF current_id \in DOMAIN ns
    THEN <<ns[current_id]>> \o PathFromNode(ns, ns[current_id].parent_id)
    ELSE <<>>

\* a path left in the order the loop built it, nearest node first
NotReversed(s) == s

\* path.reverse()
Reverse(s) == [i \in 1..Len(s) |-> s[Len(s) + 1 - i]]

\* a context that puts the answer of a node before its question
RECURSIVE ContextPartsResponseFirst(_)
ContextPartsResponseFirst(path) ==
    IF path = <<>> THEN <<>>
    ELSE LET node == Head(path) IN
         (IF node.ai_response # "" THEN <<"Assistant: " \o node.ai_response>> ELSE <<>>)
         \o (IF node.user_input # "" THEN <<"Human: " \o node.user_input>> ELSE <<>>)
         \o ContextPartsResponseFirst(Tail(path))

\* the for loop: one line per non-empty text of each node of the path
RECURSIVE ContextParts(_)
ContextParts(path) ==
    IF path = <<>> THEN <<>>
    ELSE LET node == Head(path) IN
         (IF node.user_input # "" THEN <<"Human: " \o node.user_input>> ELSE <<>>)
         \o (IF node.ai_response # "" THEN <<"Assistant: " \o node.ai_response>> ELSE <<>>)
         \o ContextParts(Tail(path))

\* parts[-count:]
LastParts(parts, count) ==
    SubSeq(parts, IF Len(parts) > count THEN Len(parts) - count + 1 ELSE 1, Len(parts))

\* "\n".join(parts)
RECURSIVE Join(_)
Join(parts) ==
    IF parts = <<>> THEN ""
    ELSE IF Len(parts) = 1 THEN parts[1]
    ELSE parts[1] \o "\n" \o Join(Tail(parts))

\* no call of build_conversation_context has been made
NoCall == [called |-> FALSE, node_id |-> None, result |-> ""]

\* a context builder that looks the node up without the guard on node_id
build_conversation_context_unguarded(ns, node_id) ==
    IF node_id = None \/ node_id \notin DOMAIN ns THEN "KeyError"
    ELSE Join(LastParts(ContextParts(Reverse(PathFromNode(ns, node_id))),
                        ContextWindow))

\* build_conversation_context(tree_data, node_id): the context string
build_conversation_context(ns, node_id) ==
    IF node_id = None \/ node_id \notin DOMAIN ns THEN ""
    ELSE Join(LastParts(ContextParts(Reverse(PathFromNode(ns, node_id))),
                        ContextWindow))

----------------------------------------------------------------------------
(* Initial state: nothing has been persisted *)

NothingPersisted ==
    /\ file_exists = FALSE
    /\ nodes = EmptyMap
    /\ root_id = None
    /\ has_ghost_key = FALSE
    /\ ghost_branches = EmptyMap
    /\ next_node_id = 1
    /\ next_ghost_id = 1
    /\ edit_count = 0
    /\ edits_applied = EmptyMap
    /\ last = Response("init", 200)
    /\ pre = [nodes |-> EmptyMap, root_id |-> None, ghost_branches |-> EmptyMap]
    /\ file_corrupt = FALSE

Init ==
    /\ NothingPersisted
    /\ disk = "ok"
    /\ inflight = EmptyMap
    /\ ctx_tree = EmptyMap
    /\ ctx_call = NoCall
    /\ trav = NoTraversal
    /\ repl = NoRepl
    /\ mgr = NoManager

----------------------------------------------------------------------------
(* POST /api/chat *)

NewNode(new_node_id, user_input, response, parent_id) ==
    [id |-> new_node_id,
     user_input |-> user_input,
     ai_response |-> response,
     parent_id |-> parent_id,
     children |-> <<>>,
     edit_history |-> <<>>]

\* a link that puts the new child in front of its siblings
ChatNodesPrepended(ns, new_node, parent_id) ==
    LET stored == Put(ns, new_node.id, new_node) IN
    IF parent_id # None /\ parent_id \in DOMAIN stored
    THEN [stored EXCEPT ![parent_id].children = <<new_node.id>> \o @]
    ELSE stored

\* the nodes map after the new node is stored and linked to its parent
ChatNodes(ns, new_node, parent_id) ==
    LET stored == Put(ns, new_node.id, new_node) IN
    IF parent_id # None /\ parent_id \in DOMAIN stored
    THEN [stored EXCEPT ![parent_id].children = Append(@, new_node.id)]
    ELSE stored

\* root_id after the chat
ChatRootId(ns, r, new_node, parent_id) ==
    IF parent_id # None /\ parent_id \in DOMAIN Put(ns, new_node.id, new_node)
    THEN r
    ELSE new_node.id

\* a chat that stores the user's turn before it asks the model for the answer
chat_stored_before_generation(message, parent_id, generated) ==
    /\ next_node_id <= MaxNodes
    /\ pre' = Loaded
    /\ Others
    /\ UNCHANGED <<next_ghost_id, edit_count, edits_applied>>
    /\ \E response \in IF generated THEN ChatResponses ELSE {""} :
         LET new_node == NewNode(next_node_id, message, response, parent_id) IN
         /\ SaveTree(ChatNodes(LoadNodes, new_node, parent_id),
                     ChatRootId(LoadNodes, LoadRootId, new_node, parent_id),
                     LoadHasGhostKey, LoadGhosts)
         /\ next_node_id' = next_node_id + 1
         /\ last' = IF ~generated THEN Response("chat", 503)
                    ELSE IF SaveFails THEN Response("chat", 500)
                    ELSE [Response("chat", 200) EXCEPT !.node_id = new_node.id]

chat(message, parent_id, generated) ==
    /\ next_node_id <= MaxNodes
    /\ pre' = Loaded
    /\ Others
    /\ UNCHANGED <<next_ghost_id, edit_count, edits_applied>>
    /\ IF message = ""
       THEN /\ last' = Response("chat", 400)
            /\ NoSave
            /\ UNCHANGED next_node_id
       ELSE IF ~generated
       THEN /\ last' = Response("chat", 503)
            /\ NoSave
            /\ UNCHANGED next_node_id
       ELSE \E response \in ChatResponses :
            LET new_node == NewNode(next_node_id, message, response, parent_id) IN
            /\ SaveTree(ChatNodes(LoadNodes, new_node, parent_id),
                        ChatRootId(LoadNodes, LoadRootId, new_node, parent_id),
                        LoadHasGhostKey, LoadGhosts)
            /\ next_node_id' = next_node_id + 1
            /\ last' = IF SaveFails
                       THEN Response("chat", 500)
                       ELSE [Response("chat", 200) EXCEPT !.node_id = new_node.id]

----------------------------------------------------------------------------
(* POST /api/tree/reset *)

\* a reset that writes the empty tree and leaves the ghost store in the file
reset_tree_keeping_ghosts ==
    /\ pre' = Loaded
    /\ Others
    /\ SaveTree(EmptyMap, None, LoadHasGhostKey, LoadGhosts)
    /\ last' = Response("reset", IF SaveFails THEN 500 ELSE 200)
    /\ UNCHANGED <<next_node_id, next_ghost_id, edit_count, edits_applied>>

reset_tree ==
    /\ pre' = Loaded
    /\ Others
    /\ SaveTree(EmptyMap, None, FALSE, EmptyMap)
    /\ last' = Response("reset", IF SaveFails THEN 500 ELSE 200)
    /\ UNCHANGED <<next_node_id, next_ghost_id, edit_count, edits_applied>>

----------------------------------------------------------------------------
(* POST /api/node/<node_id>/edit *)

\* the number of successful edits applied to node_id so far
Applied(node_id) ==
    IF node_id \in DOMAIN edits_applied THEN edits_applied[node_id] ELSE 0

\* the content update and the edit-history record
\* an update that keeps only the latest record of the edit history
UpdateNodeLatestOnly(node, new_user_input, new_ai_response, ghost_id) ==
    [node EXCEPT
        !.user_input = IF new_user_input # "" THEN new_user_input ELSE @,
        !.ai_response = IF new_ai_response # "" THEN new_ai_response ELSE @,
        !.edit_history = <<[user_input |-> new_user_input,
                            ai_response |-> new_ai_response,
                            ghost_created |-> ghost_id]>>]

UpdateNode(node, new_user_input, new_ai_response, ghost_id) ==
    [node EXCEPT
        !.user_input = IF new_user_input # "" THEN new_user_input ELSE @,
        !.ai_response = IF new_ai_response # "" THEN new_ai_response ELSE @,
        !.edit_history = Append(@, [user_input |-> new_user_input,
                                    ai_response |-> new_ai_response,
                                    ghost_created |-> ghost_id])]

\* an edit whose node objects are shared with the stored ghosts: clearing the
\* children of the edited node clears them in every ghost that holds the node
EditGhostsShared(ns, gs, node_id, ghost_id) ==
    LET shared == [g \in DOMAIN gs |->
                      IF node_id \in DOMAIN gs[g].nodes
                      THEN [gs[g] EXCEPT !.nodes[node_id].children = <<>>]
                      ELSE gs[g]]
    IN IF ghost_id # None
       THEN Put(shared, ghost_id, CreateGhostBranch(ns, node_id, ghost_id))
       ELSE shared

\* an edit that takes a ghost of the node whatever was asked
EditGhostsAlways(ns, gs, node_id, ghost_id) ==
    Put(gs, IF ghost_id # None THEN ghost_id ELSE next_ghost_id,
        CreateGhostBranch(ns, node_id, next_ghost_id))

\* the ghost store after the optional create_ghost_branch
EditGhosts(ns, gs, node_id, ghost_id) ==
    IF ghost_id # None
    THEN Put(gs, ghost_id, CreateGhostBranch(ns, node_id, ghost_id))
    ELSE gs

\* an edit that calls remove_subtree on every node, with preserve_root set
\* only when the node has children
EditNodesRemovingLeaf(ns, node_id, new_user_input, new_ai_response, ghost_id) ==
    LET has_children == Len(ns[node_id].children) > 0
        removed == RemoveSubtree(ns, node_id, has_children)
    IN  IF node_id \in DOMAIN removed
        THEN [removed EXCEPT ![node_id] =
                 UpdateNode(@, new_user_input, new_ai_response, ghost_id)]
        ELSE removed

\* the nodes map after the optional remove_subtree and the content update
EditNodes(ns, node_id, new_user_input, new_ai_response, ghost_id) ==
    LET has_children == Len(ns[node_id].children) > 0
        removed == IF has_children THEN RemoveSubtree(ns, node_id, TRUE) ELSE ns
    IN  IF node_id \in DOMAIN removed
        THEN [removed EXCEPT ![node_id] =
                 UpdateNode(@, new_user_input, new_ai_response, ghost_id)]
        ELSE removed

edit_node(node_id, new_user_input, new_ai_response, create_ghost) ==
    /\ pre' = Loaded
    /\ Others
    /\ UNCHANGED next_node_id
    /\ IF new_user_input = "" /\ new_ai_response = ""
       THEN /\ last' = Response("edit", 400)
            /\ NoSave
            /\ UNCHANGED <<next_ghost_id, edit_count, edits_applied>>
       ELSE IF node_id \notin DOMAIN LoadNodes
       THEN /\ last' = Response("edit", 404)
            /\ NoSave
            /\ UNCHANGED <<next_ghost_id, edit_count, edits_applied>>
       ELSE LET node == LoadNodes[node_id]
                has_children == Len(node.children) > 0
                ghosted == create_ghost /\ has_children
                ghost_id == IF ghosted THEN next_ghost_id ELSE None
            IN  /\ edit_count < MaxEdits
                /\ edit_count' = edit_count + 1
                /\ edits_applied' = IF SaveFails THEN edits_applied
                                    ELSE Put(edits_applied, node_id,
                                             Applied(node_id) + 1)
                /\ SaveTree(EditNodes(LoadNodes, node_id, new_user_input,
                                      new_ai_response, ghost_id),
                            LoadRootId,
                            LoadHasGhostKey \/ ghosted,
                            EditGhosts(LoadNodes, LoadGhosts, node_id, ghost_id))
                /\ next_ghost_id' = IF ghosted THEN next_ghost_id + 1 ELSE next_ghost_id
                /\ last' = IF SaveFails
                           THEN Response("edit", 500)
                           ELSE [Response("edit", 200) EXCEPT
                                    !.ghost_id = ghost_id,
                                    !.children_removed = has_children /\ ~create_ghost,
                                    !.children_ghosted = has_children /\ create_ghost]

----------------------------------------------------------------------------
(* GET /api/ghost-branches/<ghost_id> *)

\* a lookup that answers 200 with an empty body for an unknown ghost id
get_ghost_branch_details_unchecked(ghost_id) ==
    /\ pre' = Loaded
    /\ Others
    /\ NoSave
    /\ UNCHANGED <<next_node_id, next_ghost_id, edit_count, edits_applied>>
    /\ last' = [Response("get_ghost", 200) EXCEPT
                   !.ghost_id = IF ghost_id \in DOMAIN LoadGhosts THEN ghost_id ELSE None]

get_ghost_branch_details(ghost_id) ==
    /\ pre' = Loaded
    /\ Others
    /\ NoSave
    /\ UNCHANGED <<next_node_id, next_ghost_id, edit_count, edits_applied>>
    /\ IF ghost_id \notin DOMAIN LoadGhosts
       THEN last' = Response("get_ghost", 404)
       ELSE last' = [Response("get_ghost", 200) EXCEPT !.ghost_id = ghost_id]

----------------------------------------------------------------------------
(* POST /api/ghost-branches/<ghost_id>/restore *)

\* the loop that writes the ghost's nodes, the anchor excepted, into the live store
\* a loop that writes every node of the ghost, the anchor too
RestoreNodesWithAnchor(ns, ghost_nodes, original_node_id, todo) ==
    [x \in DOMAIN ns \cup todo |-> IF x \in todo THEN ghost_nodes[x] ELSE ns[x]]

RECURSIVE RestoreNodes(_, _, _, _)
RestoreNodes(ns, ghost_nodes, original_node_id, todo) ==
    IF todo = {} THEN ns
    ELSE LET node_id == CHOOSE x \in todo : TRUE
             written == IF node_id # original_node_id
                        THEN Put(ns, node_id, ghost_nodes[node_id])
                        ELSE ns
         IN RestoreNodes(written, ghost_nodes, original_node_id, todo \ {node_id})

\* a restore that forgets to re-attach the children to the anchor
RestoreTreeNotReattached(ns, ghost_branch) ==
    RestoreNodes(ns, ghost_branch.nodes, ghost_branch.original_node_id,
                 DOMAIN ghost_branch.nodes)

\* a restore that keeps the children the anchor has now in front of the ghost's
RestoreTreeChildrenMerged(ns, ghost_branch) ==
    LET original_node_id == ghost_branch.original_node_id
        restored == RestoreNodes(ns, ghost_branch.nodes, original_node_id,
                                 DOMAIN ghost_branch.nodes)
        ghost_root == ghost_branch.nodes[original_node_id]
    IN [restored EXCEPT ![original_node_id].children = @ \o ghost_root.children]

\* the live store after the restore: nodes written, anchor re-attached
RestoreTree(ns, ghost_branch) ==
    LET original_node_id == ghost_branch.original_node_id
        restored == RestoreNodes(ns, ghost_branch.nodes, original_node_id,
                                 DOMAIN ghost_branch.nodes)
        ghost_root == ghost_branch.nodes[original_node_id]
    IN [restored EXCEPT ![original_node_id].children = ghost_root.children]

\* a restore that does not look for the anchor in the live store
RestoreStatusAnchorUnchecked(ns, gs, ghost_id) ==
    IF ghost_id \notin DOMAIN gs THEN 404 ELSE 200

\* the status the restore answers with: the checks made before any change
RestoreStatus(ns, gs, ghost_id) ==
    IF ghost_id \notin DOMAIN gs THEN 404
    ELSE IF gs[ghost_id].original_node_id \notin DOMAIN ns THEN 400
    ELSE IF gs[ghost_id].original_node_id \notin DOMAIN gs[ghost_id].nodes
    THEN 500  \* KeyError, caught by the handler's except clause
    ELSE 200

\* a restore that keeps the ghost record
RestoreGhostsKept(gs, ghost_id) == gs

\* the ghost store after the restore
RestoreGhosts(gs, ghost_id) == Del(gs, {ghost_id})

restore_ghost_branch(ghost_id) ==
    /\ pre' = Loaded
    /\ Others
    /\ UNCHANGED <<next_node_id, next_ghost_id, edit_count, edits_applied>>
    /\ last' = Response("restore",
                        IF RestoreStatus(LoadNodes, LoadGhosts, ghost_id) = 200 /\ SaveFails
                        THEN 500
                        ELSE RestoreStatus(LoadNodes, LoadGhosts, ghost_id))
    /\ IF RestoreStatus(LoadNodes, LoadGhosts, ghost_id) = 200
       THEN SaveTree(RestoreTree(LoadNodes, LoadGhosts[ghost_id]),
                     LoadRootId,
                     TRUE,
                     RestoreGhosts(LoadGhosts, ghost_id))
       ELSE NoSave

----------------------------------------------------------------------------
(* DELETE /api/ghost-branches/<ghost_id> *)

\* a delete that empties the ghost store
delete_ghost_branch_all(ghost_id) ==
    /\ pre' = Loaded
    /\ Others
    /\ UNCHANGED <<next_node_id, next_ghost_id, edit_count, edits_applied>>
    /\ IF ghost_id \notin DOMAIN LoadGhosts
       THEN /\ last' = Response("delete_ghost", 404)
            /\ NoSave
       ELSE /\ SaveTree(LoadNodes, LoadRootId, TRUE, EmptyMap)
            /\ last' = Response("delete_ghost", IF SaveFails THEN 500 ELSE 200)

delete_ghost_branch(ghost_id) ==
    /\ pre' = Loaded
    /\ Others
    /\ UNCHANGED <<next_node_id, next_ghost_id, edit_count, edits_applied>>
    /\ IF ghost_id \notin DOMAIN LoadGhosts
       THEN /\ last' = Response("delete_ghost", 404)
            /\ NoSave
       ELSE /\ SaveTree(LoadNodes, LoadRootId, TRUE, Del(LoadGhosts, {ghost_id}))
            /\ last' = Response("delete_ghost", IF SaveFails THEN 500 ELSE 200)

----------------------------------------------------------------------------
(* Requests are served one at a time *)

\* node ids a client can name: the ids the server has issued, or a made-up one
KnownNodeIds == (1..(next_node_id - 1)) \cup {NoSuchId}

\* ghost ids a client can name
KnownGhostIds == (1..(next_ghost_id - 1)) \cup {NoSuchId}

Next ==
    \/ \E message \in ChatMessages, parent_id \in KnownNodeIds \cup {None},
          generated \in BOOLEAN :
          chat(message, parent_id, generated)
    \/ \E node_id \in KnownNodeIds, body \in EditBodies, create_ghost \in BOOLEAN :
          edit_node(node_id, body[1], body[2], create_ghost)
    \/ \E ghost_id \in KnownGhostIds : get_ghost_branch_details(ghost_id)
    \/ \E ghost_id \in KnownGhostIds : restore_ghost_branch(ghost_id)
    \/ \E ghost_id \in KnownGhostIds : delete_ghost_branch(ghost_id)
    \/ reset_tree

Spec == Init /\ [][Next]_vars

----------------------------------------------------------------------------
(* Requests served at once: app.run serves each request in its own thread,  *)
(* and a handler holds no lock between load_tree_memory and save_tree_memory *)

\* the threads serving requests
Workers == {1, 2}

\* tree_data = load_tree_memory(), a handler's local copy of the document
load_tree_memory ==
    [nodes |-> LoadNodes, root_id |-> LoadRootId,
     has_ghost_key |-> LoadHasGhostKey, ghost_branches |-> LoadGhosts]

\* save_tree_memory(tree_data)
SaveDoc(tree_data) ==
    SaveTree(tree_data.nodes, tree_data.root_id,
             tree_data.has_ghost_key, tree_data.ghost_branches)

\* the uuid4 that worker w's request draws, for a node and for a ghost
WorkerNodeId(w) == next_node_id + w - 1

WorkerGhostId(w) == next_ghost_id + w - 1

\* chat from the load to the save, on the handler's local tree_data
ChatDoc(tree_data, request, w) ==
    LET new_node == NewNode(WorkerNodeId(w), request.message, request.response,
                            request.parent_id)
    IN [tree_data EXCEPT
           !.nodes = ChatNodes(tree_data.nodes, new_node, request.parent_id),
           !.root_id = ChatRootId(tree_data.nodes, tree_data.root_id, new_node,
                                  request.parent_id)]

\* edit_node from the load to the save, on the handler's local tree_data
EditDoc(tree_data, request, w) ==
    LET ghosted == /\ request.create_ghost
                   /\ Len(tree_data.nodes[request.node_id].children) > 0
        ghost_id == IF ghosted THEN WorkerGhostId(w) ELSE None
    IN [tree_data EXCEPT
           !.nodes = EditNodes(tree_data.nodes, request.node_id,
                               request.user_input, request.ai_response, ghost_id),
           !.has_ghost_key = @ \/ ghosted,
           !.ghost_branches = EditGhosts(tree_data.nodes, tree_data.ghost_branches,
                                         request.node_id, ghost_id)]

\* the handler answers before it saves: edit_node of a node that is not live
Refused(tree_data, request) ==
    request.op = "edit" /\ request.node_id \notin DOMAIN tree_data.nodes

\* the document a handler saves, or the one it leaves when it saves nothing
Handle(tree_data, request, w) ==
    IF Refused(tree_data, request) THEN tree_data
    ELSE IF request.op = "chat" THEN ChatDoc(tree_data, request, w)
    ELSE EditDoc(tree_data, request, w)

\* the document two sequential chats have persisted: a root and its child
ConcStart ==
    LET first == NewNode(1, "hi", "hello", None)
        second == NewNode(2, "hi", "hello", 1)
    IN [nodes |-> ChatNodes(ChatNodes(EmptyMap, first, None), second, 1),
        root_id |-> 1,
        has_ghost_key |-> TRUE,
        ghost_branches |-> EmptyMap]

ConcInit ==
    /\ file_exists = TRUE
    /\ file_corrupt = FALSE
    /\ nodes = ConcStart.nodes
    /\ root_id = ConcStart.root_id
    /\ has_ghost_key = ConcStart.has_ghost_key
    /\ ghost_branches = ConcStart.ghost_branches
    /\ next_node_id = 3
    /\ next_ghost_id = 1
    /\ edit_count = 0
    /\ edits_applied = EmptyMap
    /\ last = [Response("chat", 200) EXCEPT !.node_id = 2]
    /\ pre = [nodes |-> ChatNodes(EmptyMap, NewNode(1, "hi", "hello", None), None),
              root_id |-> 1, ghost_branches |-> EmptyMap]
    /\ disk = "ok"
    /\ inflight = EmptyMap
    /\ ctx_tree = EmptyMap
    /\ ctx_call = NoCall
    /\ trav = NoTraversal
    /\ repl = NoRepl
    /\ mgr = NoManager

\* a worker takes a request and runs its handler up to load_tree_memory
request_loads(w, request) ==
    /\ w \notin DOMAIN inflight
    /\ inflight' = Put(inflight, w, [request |-> request,
                                     tree_data |-> load_tree_memory,
                                     done |-> FALSE])
    /\ UNCHANGED <<routeVars, disk, ctx_tree, ctx_call, trav, repl, mgr>>

\* POST /api/chat arrives and loads
chat_loads(w, message, parent_id) ==
    \E response \in ChatResponses :
        request_loads(w, [op |-> "chat", message |-> message,
                          response |-> response, parent_id |-> parent_id])

\* POST /api/node/<node_id>/edit arrives and loads
edit_node_loads(w, node_id, new_user_input, new_ai_response, create_ghost) ==
    request_loads(w, [op |-> "edit", node_id |-> node_id,
                      user_input |-> new_user_input,
                      ai_response |-> new_ai_response,
                      create_ghost |-> create_ghost])

\* the rest of the handler: it mutates its tree_data, saves it and answers
request_saves(w) ==
    /\ w \in DOMAIN inflight
    /\ ~inflight[w].done
    /\ LET tree_data == inflight[w].tree_data
           request == inflight[w].request
       IN /\ IF Refused(tree_data, request)
             THEN NoSave /\ last' = Response(request.op, 404)
             ELSE /\ SaveDoc(Handle(tree_data, request, w))
                  /\ last' = IF SaveFails THEN Response(request.op, 500)
                             ELSE IF request.op = "chat"
                             THEN [Response("chat", 200) EXCEPT
                                      !.node_id = WorkerNodeId(w)]
                             ELSE Response("edit", 200)
          /\ pre' = [nodes |-> tree_data.nodes, root_id |-> tree_data.root_id,
                     ghost_branches |-> tree_data.ghost_branches]
    /\ inflight' = [inflight EXCEPT ![w].done = TRUE]
    /\ UNCHANGED <<next_node_id, next_ghost_id, edit_count, edits_applied,
                   disk, ctx_tree, ctx_call, trav, repl, mgr>>

ConcNext ==
    \/ \E w \in Workers, message \in ChatMessages, parent_id \in {None, 1, 2} :
          chat_loads(w, message, parent_id)
    \/ \E w \in Workers, node_id \in {1, 2}, body \in EditBodies,
          create_ghost \in BOOLEAN :
          edit_node_loads(w, node_id, body[1], body[2], create_ghost)
    \/ \E w \in Workers : request_saves(w)

ConcSpec == ConcInit /\ [][ConcNext]_vars

----------------------------------------------------------------------------
(* Requests served while saving can fail *)

\* the environment: the disk fills up or frees, the file's permissions change
disk_condition(outcome) ==
    /\ disk' = outcome
    /\ UNCHANGED <<routeVars, inflight, ctx_tree, ctx_call, trav, repl, mgr>>

FailNext ==
    \/ Next
    \/ \E outcome \in DiskOutcomes : disk_condition(outcome)

FailSpec == Init /\ [][FailNext]_vars

----------------------------------------------------------------------------
(* Direct calls of build_conversation_context *)

\* node i of a conversation of L turns, as chat stores it: turn i answers
\* turn i - 1, the first turn has parent_id top, the model's answer to turn e
\* was empty, and turn L + 1 is a second answer to turn b, off the main line
CtxNode(i, L, top, e, b) ==
    [id |-> i,
     user_input |-> "u" \o ToString(i),
     ai_response |-> IF i = e THEN "" ELSE "a" \o ToString(i),
     parent_id |-> IF i = L + 1 THEN b ELSE IF i = 1 THEN top ELSE i - 1,
     children |-> (IF i < L THEN <<i + 1>> ELSE <<>>)
                  \o (IF i = b THEN <<L + 1>> ELSE <<>>),
     edit_history |-> <<>>]

CtxTree(L, top, e, b) ==
    [i \in 1..(IF b = 0 THEN L ELSE L + 1) |-> CtxNode(i, L, top, e, b)]

\* the trees the calls are made on
CtxTrees ==
    UNION {{CtxTree(L, top, e, b) : top \in {None, NoSuchId}, e \in 0..L, b \in 0..L} :
              L \in 0..MaxPath}

CtxInit ==
    /\ NothingPersisted
    /\ disk = "ok"
    /\ inflight = EmptyMap
    /\ ctx_tree \in CtxTrees
    /\ ctx_call = NoCall
    /\ trav = NoTraversal
    /\ repl = NoRepl
    /\ mgr = NoManager

\* context = build_conversation_context(tree_data, node_id)
call_build_conversation_context(node_id) ==
    /\ ctx_call' = [called |-> TRUE,
                    node_id |-> node_id,
                    result |-> build_conversation_context(ctx_tree, node_id)]
    /\ UNCHANGED <<routeVars, disk, inflight, ctx_tree, trav, repl, mgr>>

CtxNext ==
    \E node_id \in DOMAIN ctx_tree \cup {None, NoSuchId} :
        call_build_conversation_context(node_id)

CtxSpec == CtxInit /\ [][CtxNext]_vars

----------------------------------------------------------------------------
(* GET /api/tree and GET /api/node/<node_id>, served among chats and edits *)

get_tree ==
    /\ pre' = Loaded
    /\ Others
    /\ NoSave
    /\ UNCHANGED <<next_node_id, next_ghost_id, edit_count, edits_applied>>
    /\ last' = Response("get_tree", 200)

\* a lookup that answers 200 whether or not the node is stored
get_node_unchecked(node_id) ==
    /\ pre' = Loaded
    /\ Others
    /\ NoSave
    /\ UNCHANGED <<next_node_id, next_ghost_id, edit_count, edits_applied>>
    /\ last' = [Response("get_node", 200) EXCEPT !.node_id = node_id]

get_node(node_id) ==
    /\ pre' = Loaded
    /\ Others
    /\ NoSave
    /\ UNCHANGED <<next_node_id, next_ghost_id, edit_count, edits_applied>>
    /\ IF node_id = None
       THEN last' = Response("get_node", 400)
       ELSE IF node_id \in DOMAIN LoadNodes
       THEN last' = [Response("get_node", 200) EXCEPT !.node_id = node_id]
       ELSE last' = [Response("get_node", 404) EXCEPT !.node_id = node_id]

ReadNext ==
    \/ \E message \in ChatMessages, parent_id \in KnownNodeIds \cup {None},
          generated \in BOOLEAN :
          chat(message, parent_id, generated)
    \/ \E node_id \in KnownNodeIds, body \in EditBodies, create_ghost \in BOOLEAN :
          edit_node(node_id, body[1], body[2], create_ghost)
    \/ \E node_id \in KnownNodeIds : get_node(node_id)
    \/ get_tree

ReadSpec == Init /\ [][ReadNext]_vars

----------------------------------------------------------------------------
(* Direct calls of create_ghost_branch and remove_subtree, one step per     *)
(* iteration of their loops, on stored trees that need not be well formed   *)

\* the children of node i in a tree of n nodes with parents p, in id order
RECURSIVE TravChildren(_, _, _, _)
TravChildren(p, i, j, n) ==
    IF j > n THEN <<>>
    ELSE (IF p[j] = i THEN <<j>> ELSE <<>>) \o TravChildren(p, i, j + 1, n)

\* a stored tree of n nodes: node i hangs under p[i] < i, and one further
\* entry extra.to may stand at the end of the children of extra.from
TravTree(n, p, extra) ==
    [i \in 1..n |->
        [id |-> i,
         user_input |-> "u" \o ToString(i),
         parent_id |-> p[i],
         children |-> TravChildren(p, i, i + 1, n)
                      \o (IF extra.from = i THEN <<extra.to>> ELSE <<>>)]]

\* the parents of the trees of n nodes; the topmost node has no parent or
\* names one that is not stored
TravParents(n) ==
    {p \in [1..n -> 0..n \cup {NoSuchId}] :
        \A i \in 1..n : IF i = 1 THEN p[i] \in {None, NoSuchId}
                        ELSE p[i] \in 1..(i - 1)}

\* no further entry, or one that repeats a child, names a node that has a
\* parent already, closes a cycle, or names an id that is not stored
TravExtras(n) ==
    {[from |-> None, to |-> None]}
    \cup {[from |-> a, to |-> b] : a \in 1..n, b \in (1..n) \cup {NoSuchId}}

\* create_ghost_branch(tree_data, node_id) or
\* remove_subtree(tree_data, node_id, preserve_root) has been called
TravCall(op, tree, node_id, preserve_root) ==
    [NoTraversal EXCEPT !.op = op, !.tree = tree, !.node_id = node_id,
                        !.preserve_root = preserve_root, !.status = "called"]

\* the calls made: the function and its preserve_root
TravCalled == {<<"copy", TRUE>>, <<"remove", TRUE>>, <<"remove", FALSE>>}

TravInit ==
    /\ NothingPersisted
    /\ disk = "ok"
    /\ inflight = EmptyMap
    /\ ctx_tree = EmptyMap
    /\ ctx_call = NoCall
    /\ \E n \in 0..MaxTravNodes :
          \E p \in TravParents(n), extra \in TravExtras(n),
             node_id \in (1..n) \cup {NoSuchId}, called \in TravCalled :
             trav = TravCall(called[1], TravTree(n, p, extra), node_id, called[2])
    /\ repl = NoRepl
    /\ mgr = NoManager

TravOthers == UNCHANGED <<routeVars, disk, inflight, ctx_tree, ctx_call, repl, mgr>>

\* the frame of one call: the node it was called on and the position of its
\* for loop in the node's children
Frame(current_id) == [current_id |-> current_id, next |-> 1]

\* the frame on top of the stack has run its for loop to the end
LoopDone(t) ==
    LET top == t.stack[Len(t.stack)]
    IN  \/ top.current_id \notin DOMAIN t.tree
        \/ top.next > Len(t.tree[top.current_id].children)

\* the child the for loop of the top frame is at
NextChild(t) ==
    LET top == t.stack[Len(t.stack)]
    IN  t.tree[top.current_id].children[top.next]

\* the stack once the for loop of the top frame has moved on
Advance(stack) ==
    [stack EXCEPT ![Len(stack)].next = @ + 1]

\* the stack once the top frame has returned
Pop(stack) == SubSeq(stack, 1, Len(stack) - 1)

\* a copy_subtree that goes into every stored node it is called on
CopyVisitsAll(tree, current_id, visited) ==
    current_id \in DOMAIN tree

\* copy_subtree(current_id, visited) does not return at once
CopyVisits(tree, current_id, visited) ==
    ~(current_id \in visited \/ current_id \notin DOMAIN tree)

\* create_ghost_branch up to the first call of copy_subtree
create_ghost_branch_called ==
    /\ trav.op = "copy" /\ trav.status = "called"
    /\ TravOthers
    /\ IF trav.node_id \notin DOMAIN trav.tree
       THEN trav' = [trav EXCEPT !.status = "returned"]
       ELSE trav' = [trav EXCEPT !.status = "running",
                                 !.visited = {trav.node_id},
                                 !.copied = <<trav.node_id>>,
                                 !.stack = <<Frame(trav.node_id)>>]

\* one iteration of the for loop of copy_subtree, the call it makes entered,
\* or the return of the call whose loop is done; the ghost is stored when
\* the first call returns
copy_subtree_step ==
    /\ trav.op = "copy" /\ trav.status = "running"
    /\ TravOthers
    /\ IF LoopDone(trav)
       THEN IF Len(trav.stack) = 1
            THEN trav' = [trav EXCEPT
                             !.stack = <<>>,
                             !.status = "returned",
                             !.result = [x \in Range(trav.copied) |-> trav.tree[x]]]
            ELSE trav' = [trav EXCEPT !.stack = Pop(@)]
       ELSE LET child_id == NextChild(trav) IN
            IF Len(trav.stack) >= RecursionLimit
            THEN trav' = [trav EXCEPT !.status = "RecursionError"]
            ELSE IF ~CopyVisits(trav.tree, child_id, trav.visited)
            THEN trav' = [trav EXCEPT !.stack = Advance(@)]
            ELSE trav' = [trav EXCEPT
                             !.visited = @ \cup {child_id},
                             !.copied = Append(@, child_id),
                             !.stack = Append(Advance(@), Frame(child_id))]

\* remove_subtree up to the first call of collect_descendants
remove_subtree_called ==
    /\ trav.op = "remove" /\ trav.status = "called"
    /\ TravOthers
    /\ IF trav.node_id \notin DOMAIN trav.tree
       THEN trav' = [trav EXCEPT !.status = "returned", !.result = trav.tree]
       ELSE trav' = [trav EXCEPT !.status = "running",
                                 !.stack = <<Frame(trav.node_id)>>]

\* one iteration of the for loop of collect_descendants, or the return of
\* the call whose loop is done; when the first call returns, the collected
\* descendants are deleted and the root node is cleared or removed
collect_descendants_step ==
    /\ trav.op = "remove" /\ trav.status = "running"
    /\ TravOthers
    /\ IF LoopDone(trav)
       THEN IF Len(trav.stack) = 1
            THEN trav' = [trav EXCEPT
                             !.stack = <<>>,
                             !.status = "returned",
                             !.result = RemoveRoot(
                                            Del(trav.tree, Range(trav.descendants)),
                                            trav.node_id, trav.preserve_root)]
            ELSE trav' = [trav EXCEPT !.stack = Pop(@)]
       ELSE LET child_id == NextChild(trav) IN
            IF Len(trav.stack) >= RecursionLimit
            THEN trav' = [trav EXCEPT !.status = "RecursionError",
                                      !.descendants = Append(@, child_id),
                                      !.result = trav.tree]
            ELSE trav' = [trav EXCEPT
                             !.descendants = Append(@, child_id),
                             !.stack = Append(Advance(@), Frame(child_id))]

TravNext ==
    \/ create_ghost_branch_called
    \/ copy_subtree_step
    \/ remove_subtree_called
    \/ collect_descendants_step

TravSpec == TravInit /\ [][TravNext]_vars

\* a call that can take a step takes it: the interpreter runs on
TravFairSpec == TravSpec /\ WF_vars(TravNext)

----------------------------------------------------------------------------
(* build_conversation_context, one step per iteration of its while loop, on *)
(* stored trees whose parent_id links can be anything, a cycle included     *)

\* the stored trees have at most MaxLoopNodes nodes
MaxLoopNodes == 3

\* the entries the list path can hold before the allocation of the next one
\* fails
MaxLoopPath == 6

\* a stored tree of n nodes, node i naming p[i] as its parent
CtxLoopTree(n, p) ==
    [i \in 1..n |->
        [id |-> i,
         user_input |-> "u" \o ToString(i),
         ai_response |-> "a" \o ToString(i),
         parent_id |-> p[i]]]

\* every choice of parents: no parent, a stored node (itself or one under
\* it included) or an id that is not stored
CtxLoopParents(n) == [1..n -> (1..n) \cup {None, NoSuchId}]

\* build_conversation_context(tree_data, node_id) has been called
CtxLoopCall(tree, node_id) ==
    [NoTraversal EXCEPT !.op = "context", !.tree = tree, !.node_id = node_id,
                        !.status = "called"]

CtxLoopInit ==
    /\ NothingPersisted
    /\ disk = "ok"
    /\ inflight = EmptyMap
    /\ ctx_tree = EmptyMap
    /\ ctx_call = NoCall
    /\ \E n \in 0..MaxLoopNodes :
          \E p \in CtxLoopParents(n), node_id \in (1..n) \cup {None, NoSuchId} :
             trav = CtxLoopCall(CtxLoopTree(n, p), node_id)
    /\ repl = NoRepl
    /\ mgr = NoManager

\* the nodes of the path, in the order of the list
PathNodes(t) == [i \in 1..Len(t.copied) |-> t.tree[t.copied[i]]]

\* path.reverse(), the for loop over the path and the join of the last parts
ContextOfPath(t) ==
    [context |-> Join(LastParts(ContextParts(Reverse(PathNodes(t))), ContextWindow))]

\* the guard on node_id; path = [] and current_id = node_id
build_conversation_context_called ==
    /\ trav.op = "context" /\ trav.status = "called"
    /\ TravOthers
    /\ IF trav.node_id = None \/ trav.node_id \notin DOMAIN trav.tree
       THEN trav' = [trav EXCEPT !.status = "returned", !.result = [context |-> ""]]
       ELSE trav' = [trav EXCEPT !.status = "running",
                                 !.stack = <<Frame(trav.node_id)>>]

\* one test of the while condition: the loop is left when current_id is
\* None or not stored, and the context is returned; otherwise the node is
\* appended to path and current_id becomes its parent_id
context_loop_step ==
    /\ trav.op = "context" /\ trav.status = "running"
    /\ TravOthers
    /\ LET current_id == trav.stack[1].current_id IN
       IF current_id = None \/ current_id \notin DOMAIN trav.tree
       THEN trav' = [trav EXCEPT !.status = "returned", !.stack = <<>>,
                                 !.result = ContextOfPath(trav)]
       ELSE IF Len(trav.copied) >= MaxLoopPath
       THEN trav' = [trav EXCEPT !.status = "MemoryError"]
       ELSE trav' = [trav EXCEPT
                        !.copied = Append(@, current_id),
                        !.stack = <<Frame(trav.tree[current_id].parent_id)>>]

CtxLoopNext ==
    \/ build_conversation_context_called
    \/ context_loop_step

CtxLoopSpec == CtxLoopInit /\ [][CtxLoopNext]_vars

\* a call that can take a step takes it: the interpreter runs on
CtxLoopFairSpec == CtxLoopSpec /\ WF_vars(CtxLoopNext)

----------------------------------------------------------------------------
(* TreeMemoryManager: the tree and the ghosts are kept in memory and written *)
(* to two files. Node dicts are objects: heap maps <<owner, node id>> to the *)
(* dict, owner 0 for a dict made by add_conversation and ghost id g for a    *)
(* dict made by the deepcopy of ghost g; tree maps a live node id to the     *)
(* owner of the dict that self.tree['nodes'] holds under it.                 *)

NoBefore == [nodes |-> EmptyMap, ghosts |-> EmptyMap]

\* the default None of the text arguments of edit_node
NoText == "<None>"

\* self.tree['nodes'] as a document
ManagerNodes(m) == [n \in DOMAIN m.tree |-> m.heap[<<m.tree[n], n>>]]

\* self.ghost_branches as a document
ManagerGhosts(m) ==
    [g \in DOMAIN m.ghosts |->
        [id |-> g,
         original_node_id |-> m.ghosts[g].original_node_id,
         nodes |-> [k \in Range(m.ghosts[g].keys) |-> m.heap[<<g, k>>]]]]

\* the dicts still referenced from the tree or from a ghost
ManagerReferenced(m) ==
    {<<m.tree[n], n>> : n \in DOMAIN m.tree}
    \cup UNION {{<<g, k>> : k \in Range(m.ghosts[g].keys)} : g \in DOMAIN m.ghosts}

\* the garbage collector frees the other dicts
ManagerCollected(m) ==
    [m EXCEPT !.heap = [o \in DOMAIN m.heap \cap ManagerReferenced(m) |-> m.heap[o]]]

\* save_tree: the IOError of a failed write is logged and dropped
ManagerSaveTree(m) ==
    CASE disk = "ok" ->
            [m EXCEPT !.tree_file = [exists |-> TRUE, corrupt |-> FALSE,
                                     nodes |-> ManagerNodes(m),
                                     root_id |-> m.root_id]]
      [] disk = "open_fails" -> m
      [] disk = "write_fails" ->
            [m EXCEPT !.tree_file = [exists |-> TRUE, corrupt |-> TRUE,
                                     nodes |-> EmptyMap, root_id |-> None]]

\* save_ghost_branches, likewise
ManagerSaveGhosts(m) ==
    CASE disk = "ok" ->
            [m EXCEPT !.ghost_file = [exists |-> TRUE, corrupt |-> FALSE,
                                      ghosts |-> ManagerGhosts(m)]]
      [] disk = "open_fails" -> m
      [] disk = "write_fails" ->
            [m EXCEPT !.ghost_file = [exists |-> TRUE, corrupt |-> TRUE,
                                      ghosts |-> EmptyMap]]

\* the ids in s, each at the place of its first occurrence
RECURSIVE FirstOccurrences(_, _)
FirstOccurrences(s, seen) ==
    IF s = <<>> THEN <<>>
    ELSE IF Head(s) \in seen THEN FirstOccurrences(Tail(s), seen)
    ELSE <<Head(s)>> \o FirstOccurrences(Tail(s), seen \cup {Head(s)})

\* the calls of copy_node_recursive, in order
RECURSIVE CopyNodeRecursive(_, _), CopyNodeChildren(_, _)
CopyNodeRecursive(doc, current_id) ==
    IF current_id \notin DOMAIN doc THEN <<>>
    ELSE <<current_id>> \o CopyNodeChildren(doc, doc[current_id].children)

CopyNodeChildren(doc, children) ==
    IF children = <<>> THEN <<>>
    ELSE CopyNodeRecursive(doc, Head(children)) \o CopyNodeChildren(doc, Tail(children))

\* the keys of the dict _copy_subtree returns, in insertion order
ManagerCopyKeys(doc, node_id) == FirstOccurrences(CopyNodeRecursive(doc, node_id), {})

\* create_ghost_branch: the subtree is deep-copied into dicts of its own
ManagerCreateGhost(m, node_id, ghost_id) ==
    LET doc == ManagerNodes(m)
        keys == ManagerCopyKeys(doc, node_id)
        copies == {<<ghost_id, k>> : k \in Range(keys)}
        stored == [m EXCEPT
                      !.heap = [o \in DOMAIN m.heap \cup copies |->
                                   IF o \in copies THEN doc[o[2]] ELSE m.heap[o]],
                      !.ghosts = Put(@, ghost_id,
                                     [original_node_id |-> node_id, keys |-> keys])]
    IN  ManagerSaveGhosts(stored)

\* remove_subtree: the keys below node_id are deleted from self.tree['nodes']
\* and the children of the node's dict are set to a new empty list
ManagerRemoveSubtree(m, node_id) ==
    LET doc == ManagerNodes(m)
        removed == Range(CopyNodeChildren(doc, doc[node_id].children))
        owner == m.tree[node_id]
    IN  IF doc[node_id].children = <<>> THEN m
        ELSE [m EXCEPT
                 !.tree = [n \in DOMAIN m.tree \ removed |-> m.tree[n]],
                 !.heap[<<owner, node_id>>].children = <<>>]

\* the children of the anchor after the loop that appends every key of the
\* ghost that is not the anchor and not yet in the list
RECURSIVE ManagerRestoredChildren(_, _, _)
ManagerRestoredChildren(children, keys, original_node_id) ==
    IF keys = <<>> THEN children
    ELSE ManagerRestoredChildren(
             IF Head(keys) # original_node_id /\ Head(keys) \notin Range(children)
             THEN Append(children, Head(keys))
             ELSE children,
             Tail(keys), original_node_id)

\* the operation has ended: its result, and what was held before an edit
ManagerDone(m, op, status, node_id, ghost_id, before) ==
    [ManagerCollected(m) EXCEPT
        !.result = [op |-> op, status |-> status, node_id |-> node_id,
                    ghost_id |-> ghost_id],
        !.before = before]

ManagerOthers ==
    UNCHANGED <<routeVars, disk, inflight, ctx_tree, ctx_call, trav, repl>>

manager_add_conversation(parent_id, user_input, ai_response) ==
    /\ mgr.next_node_id <= MaxNodes
    /\ ManagerOthers
    /\ LET node_id == mgr.next_node_id
           node == [id |-> node_id, user_input |-> user_input,
                    ai_response |-> ai_response, children |-> <<>>,
                    edit_history |-> <<>>]
           added == [mgr EXCEPT !.next_node_id = @ + 1,
                                !.tree = Put(@, node_id, 0),
                                !.heap = Put(@, <<0, node_id>>, node)]
           linked == IF parent_id # None
                     THEN IF parent_id \in DOMAIN added.tree
                          THEN [added EXCEPT
                                   !.heap[<<added.tree[parent_id], parent_id>>].children =
                                       Append(@, node_id)]
                          ELSE added
                     ELSE [added EXCEPT !.root_id = node_id]
       IN  mgr' = ManagerDone(ManagerSaveTree(linked), "add", "ok",
                              node_id, None, NoBefore)

manager_edit_node(node_id, user_input, ai_response, create_ghost) ==
    /\ ManagerOthers
    /\ IF node_id \notin DOMAIN mgr.tree
       THEN mgr' = ManagerDone(mgr, "edit", "ValueError", node_id, None, NoBefore)
       ELSE /\ mgr.edit_count < MaxEdits
            /\ LET m == [mgr EXCEPT !.edit_count = @ + 1]
                   has_children == ManagerNodes(m)[node_id].children # <<>>
                   ghosted == create_ghost /\ has_children
                   ghost_branch_id == IF ghosted THEN m.next_ghost_id ELSE None
                   ghost == IF ghosted
                            THEN [ManagerCreateGhost(m, node_id, ghost_branch_id)
                                     EXCEPT !.next_ghost_id = @ + 1]
                            ELSE m
                   removed == ManagerRemoveSubtree(ghost, node_id)
                   owner == removed.tree[node_id]
                   updated == [removed EXCEPT
                                  !.heap[<<owner, node_id>>] =
                                      [@ EXCEPT
                                          !.user_input = IF user_input # NoText
                                                         THEN user_input ELSE @,
                                          !.ai_response = IF ai_response # NoText
                                                          THEN ai_response ELSE @,
                                          !.edit_history =
                                              Append(@, [ghost_created |->
                                                            ghost_branch_id])]]
               IN  mgr' = ManagerDone(ManagerSaveTree(updated), "edit", "ok",
                                      node_id, ghost_branch_id,
                                      [nodes |-> ManagerNodes(mgr),
                                       ghosts |-> ManagerGhosts(mgr)])

manager_restore_ghost_branch(ghost_id) ==
    /\ ManagerOthers
    /\ IF ghost_id \notin DOMAIN mgr.ghosts
       THEN mgr' = ManagerDone(mgr, "restore", "ValueError", None, ghost_id, NoBefore)
       ELSE LET original_node_id == mgr.ghosts[ghost_id].original_node_id
                keys == mgr.ghosts[ghost_id].keys
            IN  IF original_node_id \notin DOMAIN mgr.tree
                THEN mgr' = ManagerDone(mgr, "restore", "ValueError",
                                        original_node_id, ghost_id, NoBefore)
                ELSE LET added == [mgr EXCEPT
                                      !.tree = [n \in DOMAIN mgr.tree \cup Range(keys) |->
                                                   IF n \in DOMAIN mgr.tree
                                                   THEN mgr.tree[n] ELSE ghost_id]]
                         owner == added.tree[original_node_id]
                         linked == [added EXCEPT
                                       !.heap[<<owner, original_node_id>>].children =
                                           ManagerRestoredChildren(@, keys,
                                                                   original_node_id)]
                     IN  mgr' = ManagerDone(ManagerSaveTree(linked), "restore", "ok",
                                            original_node_id, ghost_id, NoBefore)

manager_delete_ghost_branch(ghost_id) ==
    /\ ManagerOthers
    /\ IF ghost_id \notin DOMAIN mgr.ghosts
       THEN mgr' = ManagerDone(mgr, "delete", "ValueError", None, ghost_id, NoBefore)
       ELSE \* the dicts of the ghost that the tree holds live on in the tree
            LET deleted == [mgr EXCEPT !.ghosts = Del(@, {ghost_id})]
            IN  mgr' = ManagerDone(ManagerSaveGhosts(deleted), "delete", "ok",
                                   None, ghost_id, NoBefore)

manager_reset_tree ==
    /\ ManagerOthers
    /\ LET cleared == ManagerSaveTree([mgr EXCEPT !.tree = EmptyMap,
                                                  !.root_id = None])
           emptied == ManagerSaveGhosts([cleared EXCEPT !.ghosts = EmptyMap])
       IN  mgr' = ManagerDone(emptied, "reset", "ok", None, None, NoBefore)

\* the ids a caller of the manager can name
ManagerNodeIds == (1..(mgr.next_node_id - 1)) \cup {NoSuchId}
ManagerGhostIds == (1..(mgr.next_ghost_id - 1)) \cup {NoSuchId}

ManagerNext ==
    \/ \E parent_id \in ManagerNodeIds \cup {None} :
          manager_add_conversation(parent_id, "hi", "hello")
    \/ \E node_id \in ManagerNodeIds, create_ghost \in BOOLEAN :
          manager_edit_node(node_id, "hi2", NoText, create_ghost)
    \/ \E ghost_id \in ManagerGhostIds : manager_restore_ghost_branch(ghost_id)
    \/ \E ghost_id \in ManagerGhostIds : manager_delete_ghost_branch(ghost_id)
    \/ manager_reset_tree

ManagerSpec == Init /\ [][ManagerNext]_vars

\* the same calls, on a tree of at most MaxFailNodes nodes, while writing
\* the files can fail
ManagerFailNext ==
    \/ ManagerNext /\ mgr'.next_node_id <= MaxFailNodes + 1
    \/ \E outcome \in DiskOutcomes : disk_condition(outcome)

ManagerFailSpec == Init /\ [][ManagerFailNext]_vars

----------------------------------------------------------------------------
(* Resets: POST /api/tree/reset among the other requests and the listing of *)
(* ghosts, or TreeMemoryManager.reset_tree among the manager's calls. A run *)
(* works through the routes or through a manager object, never both.        *)

\* GET /api/ghost-branches: one entry per key of the loaded ghost_branches
get_ghost_branches ==
    /\ pre' = Loaded
    /\ Others
    /\ NoSave
    /\ UNCHANGED <<next_node_id, next_ghost_id, edit_count, edits_applied>>
    /\ last' = Response("list_ghosts", 200)

\* the resets are followed on trees of at most MaxResetNodes nodes
MaxResetNodes == 2

ResetNext ==
    \/ Next /\ mgr = NoManager /\ next_node_id' <= MaxResetNodes + 1
    \/ get_ghost_branches /\ mgr = NoManager
    \/ ManagerNext /\ NothingPersisted /\ mgr'.next_node_id <= MaxResetNodes + 1

ResetSpec == Init /\ [][ResetNext]_vars

----------------------------------------------------------------------------
(* The REPL of main.py: each interaction is logged and the memory saved *)

MAX_LOG_ENTRIES == 100

\* a trim that keeps the oldest entries, memory["log"][:MAX_LOG_ENTRIES]
TrimLogOldest(log) ==
    IF Len(log) > MAX_LOG_ENTRIES
    THEN SubSeq(log, 1, MAX_LOG_ENTRIES)
    ELSE log

\* memory["log"][-MAX_LOG_ENTRIES:] when the log is longer than the limit
TrimLog(log) ==
    IF Len(log) > MAX_LOG_ENTRIES
    THEN SubSeq(log, Len(log) - MAX_LOG_ENTRIES + 1, Len(log))
    ELSE log

\* the log of load_memory: the file's, or empty without a readable file
load_memory ==
    IF repl.file.exists /\ ~repl.file.corrupt THEN repl.file.log ELSE <<>>

\* the memory file after save_memory has trimmed the log to trimmed
save_memory(trimmed) ==
    CASE disk = "ok" ->
            [exists |-> TRUE, corrupt |-> FALSE, log |-> trimmed]
      [] disk = "open_fails" -> repl.file
      [] disk = "write_fails" ->
            [exists |-> TRUE, corrupt |-> TRUE, log |-> <<>>]

ReplOthers == UNCHANGED <<routeVars, disk, inflight, ctx_tree, ctx_call, trav, mgr>>

\* main() starts and loads the memory
repl_start ==
    /\ ~repl.running
    /\ repl' = [repl EXCEPT !.running = TRUE, !.log = load_memory,
                            !.error = "none"]
    /\ ReplOthers

\* the lines typed at the prompt, as lists of characters
ReplInputs ==
    {<<>>, <<" ">>, <<"h", "i">>, <<" ", "h", "i", " ">>, <<"e", "x">>,
     <<"e", "x", "i", "t">>, <<" ", "E", "x", "I", "T", " ">>}

\* s.lstrip()
RECURSIVE StripLeft(_)
StripLeft(s) ==
    IF s # <<>> /\ Head(s) = " " THEN StripLeft(Tail(s)) ELSE s

\* s.strip()
Strip(s) == Reverse(StripLeft(Reverse(StripLeft(s))))

\* c.lower(), on the letters of the inputs
LowerChar(c) ==
    CASE c = "E" -> "e"
      [] c = "X" -> "x"
      [] c = "I" -> "i"
      [] c = "T" -> "t"
      [] OTHER -> c

\* s.lower()
Lower(s) == [i \in DOMAIN s |-> LowerChar(s[i])]

\* user_input.lower() == "exit"
IsExit(user_input) == Lower(user_input) = <<"e", "x", "i", "t">>

\* a turn that logs what was said before it asks the model
repl_interaction_logging_first(line, generated) ==
    /\ repl.running
    /\ repl.said < MaxInteractions
    /\ ~IsExit(Strip(line))
    /\ ReplOthers
    /\ LET entry == repl.said + 1
           trimmed == TrimLog(Append(repl.log, entry))
       IN  IF Strip(line) = <<>>
           THEN repl' = [repl EXCEPT !.error = "empty"]
           ELSE IF ~generated
           THEN repl' = [repl EXCEPT !.said = entry, !.log = Append(repl.log, entry),
                                     !.error = "ollama"]
           ELSE repl' = [repl EXCEPT
                            !.said = entry,
                            !.log = trimmed,
                            !.file = save_memory(trimmed),
                            !.error = IF SaveFails THEN "memory" ELSE "none"]

\* one turn of the loop on a line that is not "exit": an empty line is turned
\* away; otherwise the model answers or not, and its answer is appended to
\* the log, the log trimmed in place and the memory written
repl_interaction(line, generated) ==
    /\ repl.running
    /\ repl.said < MaxInteractions
    /\ ~IsExit(Strip(line))
    /\ ReplOthers
    /\ IF Strip(line) = <<>>
       THEN repl' = [repl EXCEPT !.error = "empty"]
       ELSE IF ~generated
       THEN repl' = [repl EXCEPT !.error = "ollama"]
       ELSE LET entry == repl.said + 1
                trimmed == TrimLog(Append(repl.log, entry))
            IN  repl' = [repl EXCEPT
                            !.said = entry,
                            !.log = trimmed,
                            !.file = save_memory(trimmed),
                            !.error = IF SaveFails THEN "memory" ELSE "none"]

\* "exit" or Ctrl+C
repl_exit ==
    /\ repl.running
    /\ repl' = [repl EXCEPT !.running = FALSE, !.log = <<>>, !.error = "none"]
    /\ ReplOthers

ReplNext ==
    \/ repl_start
    \/ \E line \in ReplInputs, generated \in BOOLEAN :
          repl_interaction(line, generated)
    \/ repl_exit

ReplSpec == Init /\ [][ReplNext]_vars

----------------------------------------------------------------------------
(* Vocabulary of the properties *)

\* the ids of S and every id reachable from S along children lists
RECURSIVE ChildClosure(_, _)
ChildClosure(ns, S) ==
    LET T == S \cup {c \in DOMAIN ns :
                        \E p \in S \cap DOMAIN ns : c \in Range(ns[p].children)}
    IN IF T = S THEN S ELSE ChildClosure(ns, T)

\* the live descendants of node a, at any depth
DescendantsOf(ns, a) == ChildClosure(ns, Range(ns[a].children) \cap DOMAIN ns)

\* a has a descendant below its direct children
HasGrandchild(ns, a) ==
    \E c \in Range(ns[a].children) \cap DOMAIN ns : ns[c].children # <<>>

\* the ids of S and every id reachable from S along parent_id
RECURSIVE ParentClosure(_, _)
ParentClosure(ns, S) ==
    LET T == S \cup ({ns[x].parent_id : x \in S} \cap DOMAIN ns)
    IN IF T = S THEN S ELSE ParentClosure(ns, T)

\* the ids on the parent_id path that ends in live node n, topmost first
PathIds(ns, n) ==
    LET A == ParentClosure(ns, {n}) IN
    [i \in 1..Cardinality(A) |->
        CHOOSE x \in A : Cardinality(ParentClosure(ns, {x})) = i]

\* the exchange of one node: its user input, then its response, each tagged
\* with the node it comes from
Exchange(node) ==
    (IF node.user_input # ""
     THEN <<[node |-> node.id, line |-> "Human: " \o node.user_input]>> ELSE <<>>)
    \o (IF node.ai_response # ""
        THEN <<[node |-> node.id, line |-> "Assistant: " \o node.ai_response]>> ELSE <<>>)

\* the exchanges of the nodes ids, in that order
RECURSIVE Exchanges(_, _)
Exchanges(ns, ids) ==
    IF ids = <<>> THEN <<>>
    ELSE Exchange(ns[Head(ids)]) \o Exchanges(ns, Tail(ids))

\* the text of tagged lines
Text(tagged) == Join([i \in 1..Len(tagged) |-> tagged[i].line])

\* the last k elements of s
Suffix(s, k) == SubSeq(s, Len(s) - k + 1, Len(s))

TreeUnchanged ==
    UNCHANGED <<file_exists, file_corrupt, nodes, root_id, has_ghost_key, ghost_branches>>

----------------------------------------------------------------------------
(* Tree invariants *)

\* C1: every live node n whose parent_id is p has p among the keys of nodes,
\* and p's children list contains n.id exactly once.
C1_ParentLinksChild ==
    \A n \in DOMAIN nodes :
        nodes[n].parent_id # None =>
            /\ nodes[n].parent_id \in DOMAIN nodes
            /\ Count(nodes[nodes[n].parent_id].children, n) = 1

\* C2: at most one live node has no parent_id, and a node has no parent_id
\* if and only if its id equals root_id.
C2_SingleRoot ==
    /\ Cardinality({n \in DOMAIN nodes : nodes[n].parent_id = None}) <= 1
    /\ \A n \in DOMAIN nodes : (nodes[n].parent_id = None) <=> (n = root_id)

\* C3: the live tree is a single rooted tree: following children links from
\* root_id reaches every key of nodes, and no node is reachable from itself.
C3_SingleRootedTree ==
    /\ ChildClosure(nodes, {root_id} \cap DOMAIN nodes) = DOMAIN nodes
    /\ \A n \in DOMAIN nodes : n \notin DescendantsOf(nodes, n)

----------------------------------------------------------------------------
(* Edit, ghost and restore *)

\* C4: for every node A with descendants, edit_node(A, create_ghost=true)
\* immediately followed by restore of the returned ghost gives A the children
\* list it had before the edit and puts every former descendant back in the
\* live store with the content, parent_id and children list it had before.
C4_EditThenRestore ==
    [][(/\ last.op = "edit" /\ last.status = 200 /\ last.ghost_id # None
        /\ restore_ghost_branch(last.ghost_id))
       => LET A == ghost_branches[last.ghost_id].original_node_id IN
          /\ last'.status = 200
          /\ A \in DOMAIN nodes'
          /\ nodes'[A].children = pre.nodes[A].children
          /\ \A d \in DescendantsOf(pre.nodes, A) :
                 d \in DOMAIN nodes' /\ nodes'[d] = pre.nodes[d]]_vars

\* a restore has just succeeded on the ghost that the anchor's latest edit
\* created, the anchor was a leaf in between, and a grandchild came back
C4_Witness ==
    /\ last.op = "restore" /\ last.status = 200
    /\ \E g \in DOMAIN pre.ghost_branches \ DOMAIN ghost_branches :
         LET A == pre.ghost_branches[g].original_node_id IN
         /\ pre.nodes[A].children = <<>>
         /\ pre.nodes[A].edit_history[Len(pre.nodes[A].edit_history)].ghost_created = g
         /\ HasGrandchild(nodes, A)

\* C5: edit_node on a node A that has children, with create_ghost=false:
\* afterwards A is live with children = [], every former descendant of A is
\* absent from the live store, and no ghost branch was created.
C5_EditDiscardsDescendants ==
    [][\A A \in DOMAIN LoadNodes, body \in EditBodies :
        (/\ LoadNodes[A].children # <<>>
         /\ last'.op = "edit" /\ last'.status = 200
         /\ edit_node(A, body[1], body[2], FALSE))
        => /\ A \in DOMAIN nodes'
           /\ nodes'[A].children = <<>>
           /\ \A d \in DescendantsOf(LoadNodes, A) : d \notin DOMAIN nodes'
           /\ last'.ghost_id = None
           /\ ghost_branches' = LoadGhosts]_vars

\* an edit without ghost has just removed a child and a grandchild
C5_Witness ==
    /\ last.op = "edit" /\ last.status = 200 /\ last.children_removed
    /\ \E A \in DOMAIN pre.nodes \cap DOMAIN nodes :
         /\ HasGrandchild(pre.nodes, A)
         /\ nodes[A].children = <<>>
         /\ DescendantsOf(pre.nodes, A) \cap DOMAIN nodes = {}
         /\ Len(nodes[A].edit_history) = Len(pre.nodes[A].edit_history) + 1

\* C6: edit_node on a node A that has children, with create_ghost=true:
\* afterwards A is a leaf, every former descendant of A is absent from the
\* live store, and the ghost store has gained exactly one record, whose
\* original_node_id is A and which holds a copy of every former descendant.
C6_EditGhostsDescendants ==
    [][\A A \in DOMAIN LoadNodes, body \in EditBodies :
        (/\ LoadNodes[A].children # <<>>
         /\ last'.op = "edit" /\ last'.status = 200
         /\ edit_node(A, body[1], body[2], TRUE))
        => /\ A \in DOMAIN nodes'
           /\ nodes'[A].children = <<>>
           /\ \A d \in DescendantsOf(LoadNodes, A) : d \notin DOMAIN nodes'
           /\ has_ghost_key'
           /\ \E g \in DOMAIN ghost_branches' :
                 /\ g = last'.ghost_id
                 /\ g \notin DOMAIN LoadGhosts
                 /\ DOMAIN ghost_branches' = DOMAIN LoadGhosts \cup {g}
                 /\ \A h \in DOMAIN LoadGhosts : ghost_branches'[h] = LoadGhosts[h]
                 /\ ghost_branches'[g].original_node_id = A
                 /\ \A d \in DescendantsOf(LoadNodes, A) :
                        /\ d \in DOMAIN ghost_branches'[g].nodes
                        /\ ghost_branches'[g].nodes[d] = LoadNodes[d]]_vars

\* an edit with ghost has just moved a child and a grandchild into a new ghost
C6_Witness ==
    /\ last.op = "edit" /\ last.status = 200 /\ last.children_ghosted
    /\ last.ghost_id \in DOMAIN ghost_branches
    /\ LET A == ghost_branches[last.ghost_id].original_node_id IN
         /\ HasGrandchild(pre.nodes, A)
         /\ nodes[A].children = <<>>

C8_RestoreWithoutAnchorFails ==
    [][\A g \in DOMAIN LoadGhosts :
        (/\ LoadGhosts[g].original_node_id \notin DOMAIN LoadNodes
         /\ last'.op = "restore"
         /\ restore_ghost_branch(g))
        => /\ last'.status = 400
           /\ TreeUnchanged
           /\ g \in DOMAIN ghost_branches']_vars

\* a restore has just been refused because the anchor is gone
C8_Witness ==
    /\ last.op = "restore" /\ last.status = 400
    /\ \E g \in DOMAIN ghost_branches :
         /\ ghost_branches[g].original_node_id \notin DOMAIN nodes
         /\ nodes # EmptyMap

\* C9: get, restore and delete of a ghost id that is not in the ghost store
\* each fail with NotFound (404) and leave the live tree and the ghost store
\* unchanged: a step of one of the three requests either is answered 404 with
\* the tree and the ghost store unchanged, or is the request of no ghost id
\* that is missing from the store.
C9_UnknownGhostNotFound ==
    [][\/ last'.op \notin {"get_ghost", "restore", "delete_ghost"}
       \/ (last'.status = 404 /\ TreeUnchanged)
       \/ ~\E g \in KnownGhostIds \ DOMAIN LoadGhosts :
             \/ last'.op = "get_ghost" /\ get_ghost_branch_details(g)
             \/ last'.op = "restore" /\ restore_ghost_branch(g)
             \/ last'.op = "delete_ghost" /\ delete_ghost_branch(g)]_vars

\* a restore of an unknown ghost id has just been refused while the tree and
\* the ghost store hold something
C9_Witness ==
    /\ last.op = "restore" /\ last.status = 404
    /\ nodes # EmptyMap
    /\ ghost_branches # EmptyMap

\* C10: a successful restore removes the restored ghost record, and a ghost
\* id that has left the store never comes back, so any later get or restore
\* of that id fails with NotFound (404).
C10_RestoreAtMostOnce ==
    [][/\ \A g \in DOMAIN LoadGhosts :
            (/\ last'.op = "restore" /\ last'.status = 200
             /\ restore_ghost_branch(g))
            => g \notin DOMAIN ghost_branches'
       /\ \A g \in 1..(next_ghost_id - 1) :
            g \notin DOMAIN LoadGhosts =>
               /\ g \notin DOMAIN ghost_branches'
               /\ (/\ last'.op \in {"get_ghost", "restore"}
                   /\ (get_ghost_branch_details(g) \/ restore_ghost_branch(g)))
                     => last'.status = 404]_vars

\* a restore has just succeeded and its ghost is no longer stored
C10_Witness ==
    /\ last.op = "restore" /\ last.status = 200
    /\ \E g \in DOMAIN pre.ghost_branches :
         /\ pre.ghost_branches[g].original_node_id \in DOMAIN nodes
         /\ g \notin DOMAIN ghost_branches

\* C11: a successful restore sets the anchor's children list to exactly the
\* ids that were the anchor's direct children when the ghost was created,
\* whatever children the anchor has at the moment of restore: the ghost
\* records the anchor's children list when it is created, keeps it while it
\* is stored, and the restore writes it onto the anchor.
C11_RestoreSetsGhostTimeChildren ==
    [][/\ \A A \in DOMAIN LoadNodes, body \in EditBodies :
            (/\ LoadNodes[A].children # <<>>
             /\ last'.op = "edit" /\ last'.status = 200
             /\ edit_node(A, body[1], body[2], TRUE))
            => ghost_branches'[last'.ghost_id].nodes[A].children
                   = LoadNodes[A].children
       /\ \A g \in DOMAIN LoadGhosts \cap DOMAIN LoadGhosts' :
            LET A == LoadGhosts[g].original_node_id IN
            LoadGhosts'[g].nodes[A].children = LoadGhosts[g].nodes[A].children
       /\ \A g \in DOMAIN LoadGhosts :
            (/\ last'.op = "restore" /\ last'.status = 200
             /\ restore_ghost_branch(g))
            => LET A == LoadGhosts[g].original_node_id IN
               nodes'[A].children = LoadGhosts[g].nodes[A].children]_vars

\* a restore has just succeeded on an anchor that had acquired a child since
\* the ghost was created: the new child is no longer in its children list
C11_Witness ==
    /\ last.op = "restore" /\ last.status = 200
    /\ \E g \in DOMAIN pre.ghost_branches \ DOMAIN ghost_branches :
         LET A == pre.ghost_branches[g].original_node_id IN
         /\ pre.nodes[A].children # <<>>
         /\ Range(pre.nodes[A].children)
                \cap Range(pre.ghost_branches[g].nodes[A].children) = {}
         /\ nodes[A].children = pre.ghost_branches[g].nodes[A].children

----------------------------------------------------------------------------
(* Chat *)

\* C12: when generation fails (connection failure, timeout) during chat, the
\* operation reports the failure (503) and the persisted tree is exactly as
\* it was before the call: no node is created, no children list changes and
\* root_id is unchanged.
C12_GenerationFailureLeavesTree ==
    [][\A message \in ChatMessages, parent_id \in KnownNodeIds \cup {None} :
        (/\ last'.op = "chat"
         /\ chat(message, parent_id, FALSE))
        => /\ last'.status = 503
           /\ last'.node_id = None
           /\ TreeUnchanged
           /\ next_node_id' = next_node_id]_vars

\* a chat has just failed with 503 on a tree that has a root
C12_Witness ==
    /\ last.op = "chat" /\ last.status = 503
    /\ root_id \in DOMAIN nodes
    /\ nodes = pre.nodes

\* C14: chat with a parent_id naming a live node adds exactly one new node
\* whose parent_id is that node, appends the new id at the end of the
\* parent's children list, and leaves root_id, every other node record and
\* the ghost store unchanged, whether or not the parent already has children.
C14_ChatAppendsChild ==
    [][\A message \in ChatMessages, parent_id \in DOMAIN LoadNodes :
        (/\ last'.op = "chat" /\ last'.status = 200
         /\ chat(message, parent_id, TRUE))
        => LET new_id == last'.node_id IN
           /\ new_id \notin DOMAIN LoadNodes
           /\ DOMAIN nodes' = DOMAIN LoadNodes \cup {new_id}
           /\ nodes'[new_id].parent_id = parent_id
           /\ nodes'[new_id].children = <<>>
           /\ nodes'[parent_id] =
                  [LoadNodes[parent_id] EXCEPT !.children = Append(@, new_id)]
           /\ \A x \in DOMAIN LoadNodes \ {parent_id} : nodes'[x] = LoadNodes[x]
           /\ root_id' = LoadRootId
           /\ LoadGhosts' = LoadGhosts]_vars

\* a chat has just added a second child to a parent, after its first child
C14_Witness ==
    /\ last.op = "chat" /\ last.status = 200
    /\ last.node_id \in DOMAIN nodes
    /\ LET parent_id == nodes[last.node_id].parent_id IN
         /\ parent_id \in DOMAIN pre.nodes
         /\ pre.nodes[parent_id].children # <<>>
         /\ nodes[parent_id].children
                = Append(pre.nodes[parent_id].children, last.node_id)

----------------------------------------------------------------------------
(* Ghost store *)

\* C20: a ghost branch is immutable and value-independent: from its
\* creation until it is restored, deleted or reset, its stored nodes never
\* change, whatever adds and edits are applied to the live tree or to other
\* ghost branches.
C20_GhostImmutable ==
    [][\A g \in DOMAIN LoadGhosts \cap DOMAIN LoadGhosts' :
          LoadGhosts'[g] = LoadGhosts[g]]_vars

\* a chat or an edit has just changed a live node of which a stored ghost
\* holds a copy, and the ghost still holds what it held
C20_Witness ==
    /\ last.op \in {"chat", "edit"} /\ last.status = 200
    /\ \E g \in DOMAIN pre.ghost_branches \cap DOMAIN ghost_branches :
         /\ ghost_branches[g] = pre.ghost_branches[g]
         /\ \E x \in DOMAIN ghost_branches[g].nodes \cap DOMAIN pre.nodes :
                /\ x \in DOMAIN nodes
                /\ nodes[x] # pre.nodes[x]
                /\ ghost_branches[g].nodes[x] # nodes[x]

\* C13: on an empty tree, chat with no parent_id and a successful generation
\* creates exactly one node, sets root_id to that node's id, and resolving
\* the context of that node yields exactly that one exchange, the user input
\* followed by the response.
C13_FirstChatIsRoot ==
    [][\A message \in ChatMessages :
        (/\ LoadNodes = EmptyMap
         /\ last'.op = "chat" /\ last'.status = 200
         /\ chat(message, None, TRUE))
        => LET new_id == last'.node_id IN
           /\ DOMAIN nodes' = {new_id}
           /\ root_id' = new_id
           /\ nodes'[new_id].user_input = message
           /\ nodes'[new_id].ai_response \in ChatResponses
           /\ build_conversation_context(nodes', new_id)
                  = "Human: " \o message \o "\n"
                    \o "Assistant: " \o nodes'[new_id].ai_response]_vars

\* the first chat after a reset has just made its node the root, and its
\* context is the one exchange
C13_Witness ==
    /\ last.op = "chat" /\ last.status = 200
    /\ pre.nodes = EmptyMap
    /\ next_node_id > 2
    /\ DOMAIN nodes = {root_id}
    /\ build_conversation_context(nodes, root_id) = "Human: hi\nAssistant: hello"

----------------------------------------------------------------------------
(* Conversation context *)

\* C15: build_conversation_context(tree, n) returns exchanges taken only
\* from the parent_id path from the root to n, in root-to-n order (within a
\* node, the user input before the response), and never more than 10
\* exchanges: the result is the text of the last k lines of that path's
\* exchanges, for some k, and those lines come from at most 10 nodes.
C15_ContextFollowsPath ==
    (ctx_call.called /\ ctx_call.node_id \in DOMAIN ctx_tree) =>
        LET all == Exchanges(ctx_tree, PathIds(ctx_tree, ctx_call.node_id)) IN
        \E k \in 0..Len(all) :
            /\ ctx_call.result = Text(Suffix(all, k))
            /\ Cardinality({Suffix(all, k)[i].node : i \in 1..k}) <= 10

\* a call on a node with more than ten ancestors in a tree that has a node
\* off the path has returned a context that leaves out the oldest exchanges
C15_Witness ==
    /\ ctx_call.called /\ ctx_call.node_id \in DOMAIN ctx_tree
    /\ Len(PathIds(ctx_tree, ctx_call.node_id)) > 10
    /\ DOMAIN ctx_tree \ ParentClosure(ctx_tree, {ctx_call.node_id}) # {}
    /\ ctx_call.result # ""
    /\ ctx_call.result
           # Text(Exchanges(ctx_tree, PathIds(ctx_tree, ctx_call.node_id)))

\* C16: for a node n whose root-to-n path has L nodes, each with non-empty
\* user_input and ai_response, build_conversation_context returns the
\* min(L, 10) exchanges nearest to n, each as a complete (user input,
\* response) pair.
C16_LastTenExchanges ==
    (/\ ctx_call.called /\ ctx_call.node_id \in DOMAIN ctx_tree
     /\ \A x \in ParentClosure(ctx_tree, {ctx_call.node_id}) :
            ctx_tree[x].user_input # "" /\ ctx_tree[x].ai_response # "")
    => LET ids == PathIds(ctx_tree, ctx_call.node_id)
           L == Len(ids)
       IN ctx_call.result
              = Text(Exchanges(ctx_tree, Suffix(ids, IF L < 10 THEN L ELSE 10)))

\* C17: build_conversation_context returns the empty context, without
\* error, when node_id is unset or is not a key of the live store.
C17_UnknownNodeEmptyContext ==
    (/\ ctx_call.called
     /\ ctx_call.node_id = None \/ ctx_call.node_id \notin DOMAIN ctx_tree)
    => ctx_call.result = ""

\* a call with an id that is no key of a non-empty store has returned ""
C17_Witness ==
    /\ ctx_call.called
    /\ ctx_call.node_id = NoSuchId
    /\ ctx_tree # EmptyMap
    /\ ctx_call.result = ""

----------------------------------------------------------------------------
(* Persistence failures *)

\* C19: when saving the tree fails during chat, edit_node, restore or
\* delete, the operation reports an error to the caller and the tree and
\* ghost store observed by the next operation are exactly what they were
\* before the failed operation.
C19_SaveFailureLeavesTree ==
    [][(/\ SaveFails
        /\ disk' = disk
        /\ last'.op \in {"chat", "edit", "restore", "delete_ghost"}
        /\ last'.status \notin {400, 404, 503})
       => /\ last'.status = 500
          /\ Loaded' = Loaded]_vars

----------------------------------------------------------------------------
(* Concurrency *)

\* C18: mutating operations on the same tree do not interleave: concurrent
\* requests yield a final state equal to that of some serial order of those
\* requests, so no update is lost.  Once both workers have answered, the
\* persisted document is what the two handlers leave when run one after the
\* other, in one order or the other.
C18_SerialEquivalent ==
    (/\ DOMAIN inflight = Workers
     /\ \A w \in Workers : inflight[w].done)
    => \E first \in Workers, second \in Workers :
          /\ first # second
          /\ load_tree_memory
                 = Handle(Handle(ConcStart, inflight[first].request, first),
                          inflight[second].request, second)

----------------------------------------------------------------------------
(* Reading the tree *)

\* C21: when no tree has been persisted, load_tree_memory (and GET
\* /api/tree, which returns what load_tree_memory returns) gives exactly the
\* empty tree {nodes: {}, root_id: None}, with no other field.
C21_EmptyTreeHasTwoFields ==
    ~file_exists =>
        load_tree_memory = [nodes |-> EmptyMap, root_id |-> None,
                            has_ghost_key |-> FALSE, ghost_branches |-> EmptyMap]

----------------------------------------------------------------------------
(* Edit *)

\* C22: edit_node on a leaf node updates its content and creates no ghost
\* branch whether or not create_ghost is set; the set of live node ids,
\* every children list, every parent_id, root_id and the ghost store are
\* unchanged.
C22_EditLeaf ==
    [][\A A \in DOMAIN LoadNodes, body \in EditBodies, create_ghost \in BOOLEAN :
        (/\ LoadNodes[A].children = <<>>
         /\ last'.op = "edit" /\ last'.status = 200
         /\ edit_node(A, body[1], body[2], create_ghost))
        => /\ DOMAIN nodes' = DOMAIN LoadNodes
           /\ nodes'[A].user_input = IF body[1] # "" THEN body[1]
                                     ELSE LoadNodes[A].user_input
           /\ nodes'[A].ai_response = IF body[2] # "" THEN body[2]
                                      ELSE LoadNodes[A].ai_response
           /\ last'.ghost_id = None
           /\ LoadGhosts' = LoadGhosts
           /\ \A x \in DOMAIN LoadNodes :
                 /\ nodes'[x].children = LoadNodes[x].children
                 /\ nodes'[x].parent_id = LoadNodes[x].parent_id
                 /\ x # A => nodes'[x] = LoadNodes[x]
           /\ root_id' = LoadRootId]_vars

\* an edit has just changed the user input of a leaf that has a parent,
\* while a ghost is stored
C22_Witness ==
    /\ last.op = "edit" /\ last.status = 200
    /\ ghost_branches # EmptyMap
    /\ ghost_branches = pre.ghost_branches
    /\ \E A \in DOMAIN pre.nodes \cap DOMAIN nodes :
         /\ pre.nodes[A].children = <<>>
         /\ pre.nodes[A].parent_id \in DOMAIN nodes
         /\ nodes[A].user_input # pre.nodes[A].user_input
         /\ Len(nodes[A].edit_history) = Len(pre.nodes[A].edit_history) + 1

----------------------------------------------------------------------------
(* Ghost deletion *)

\* C25: deleting an existing ghost removes exactly that record and is
\* irreversible: the live tree and all other ghosts are unchanged, and any
\* later get, restore or delete of that ghost id fails with NotFound (404):
\* an issued id that is not in the store never comes back, and a step of one
\* of the three requests is answered 404 or is the request of no such id.
C25_DeleteGhost ==
    [][/\ \A g \in DOMAIN LoadGhosts :
            (/\ last'.op = "delete_ghost"
             /\ delete_ghost_branch(g))
            => /\ last'.status = 200
               /\ LoadGhosts' = Del(LoadGhosts, {g})
               /\ LoadNodes' = LoadNodes
               /\ LoadRootId' = LoadRootId
       /\ \A g \in 1..(next_ghost_id - 1) :
            g \notin DOMAIN LoadGhosts => g \notin DOMAIN LoadGhosts'
       /\ \/ last'.op \notin {"get_ghost", "restore", "delete_ghost"}
          \/ last'.status = 404
          \/ ~\E g \in (1..(next_ghost_id - 1)) \ DOMAIN LoadGhosts :
                \/ last'.op = "get_ghost" /\ get_ghost_branch_details(g)
                \/ last'.op = "restore" /\ restore_ghost_branch(g)
                \/ last'.op = "delete_ghost" /\ delete_ghost_branch(g)]_vars

\* a delete has just removed one of two stored ghosts and the other is
\* still stored
C25_Witness ==
    /\ last.op = "delete_ghost" /\ last.status = 200
    /\ Cardinality(DOMAIN pre.ghost_branches) = 2
    /\ Cardinality(DOMAIN ghost_branches) = 1
    /\ nodes # EmptyMap

----------------------------------------------------------------------------
(* Cascade delete *)

\* C28: after any cascade delete performed by an edit, in any state
\* reachable by a serial sequence of chat/edit/restore operations, no
\* remaining live node refers to a deleted identifier, either through its
\* parent_id or through its children list.
C28_NoReferenceToDeleted ==
    [][(/\ last'.op = "edit" /\ last'.status = 200
        /\ last'.children_removed \/ last'.children_ghosted)
       => LET deleted == DOMAIN LoadNodes \ DOMAIN nodes' IN
          \A n \in DOMAIN nodes' :
              /\ nodes'[n].parent_id \notin deleted
              /\ Range(nodes'[n].children) \cap deleted = {}]_vars

\* C23: every successful edit appends exactly one record, carrying the id of
\* the ghost it created or none, to the edited node's edit_history and leaves
\* the earlier records as they were; the history of every live node is as
\* long as the number of successful edits applied to that node, also after
\* the node was ghosted and restored as a descendant
C23_HistoryCountsEdits ==
    /\ [](\A n \in DOMAIN nodes : Len(nodes[n].edit_history) = Applied(n))
    /\ [][(last'.op = "edit" /\ last'.status = 200)
          => \E n \in DOMAIN LoadNodes :
                /\ n \in DOMAIN nodes'
                /\ edits_applied' = Put(edits_applied, n, Applied(n) + 1)
                /\ LET before == LoadNodes[n].edit_history
                       after == nodes'[n].edit_history
                   IN  /\ Len(after) = Len(before) + 1
                       /\ SubSeq(after, 1, Len(before)) = before
                       /\ after[Len(after)].ghost_created = last'.ghost_id]_vars

\* an edited node that was ghosted as a descendant is live again, restored
\* with its one record
C23_Witness ==
    /\ last.op = "restore" /\ last.status = 200
    /\ \E n \in DOMAIN nodes :
          /\ n \notin DOMAIN pre.nodes
          /\ Len(nodes[n].edit_history) = 1
          /\ Applied(n) = 1

----------------------------------------------------------------------------
(* The memory log of the REPL *)

\* the last count of the entries 1 .. said
LastOf(said, count) ==
    LET kept == IF said < count THEN said ELSE count
    IN  [i \in 1..kept |-> said - kept + i]

\* C26: save_memory never persists more than MAX_LOG_ENTRIES log entries: a
\* save that succeeds writes the most recent MAX_LOG_ENTRIES entries of the
\* log in their order, and the memory file holds the last
\* min(n, MAX_LOG_ENTRIES) of the n interactions logged so far
C26_LogTrimmed ==
    /\ [](Len(repl.file.log) <= MAX_LOG_ENTRIES)
    /\ [](repl.file.log = LastOf(repl.said, MAX_LOG_ENTRIES))
    /\ [][(repl'.said # repl.said /\ repl'.error = "none")
          => LET log == Append(repl.log, repl'.said)
                 kept == repl'.file.log
             IN  /\ Len(kept) = IF Len(log) < MAX_LOG_ENTRIES
                                THEN Len(log) ELSE MAX_LOG_ENTRIES
                 /\ \A i \in 1..Len(kept) :
                       kept[i] = log[Len(log) - Len(kept) + i]]_vars

\* more interactions than the limit have been logged and the oldest ones
\* are gone from the memory file
C26_Witness ==
    /\ repl.said > MAX_LOG_ENTRIES
    /\ Len(repl.file.log) = MAX_LOG_ENTRIES
    /\ repl.file.log[1] = repl.said - MAX_LOG_ENTRIES + 1

----------------------------------------------------------------------------
(* Unknown node ids *)

\* C24: get_node and edit_node on an id that is not in the live store answer
\* 404 (NotFound); the edit then creates no ghost and changes neither the
\* tree nor the ghost store
C24_UnknownNodeNotFound ==
    [][\A node_id \in KnownNodeIds \ DOMAIN LoadNodes :
          /\ (last'.op = "get_node" /\ get_node(node_id))
                => last'.status = 404
          /\ (last'.op = "edit"
              /\ \E body \in EditBodies, create_ghost \in BOOLEAN :
                    edit_node(node_id, body[1], body[2], create_ghost))
                => /\ last'.status = 404
                   /\ last'.ghost_id = None
                   /\ next_ghost_id' = next_ghost_id
                   /\ nodes' = nodes /\ root_id' = root_id
                   /\ ghost_branches' = ghost_branches
                   /\ file_exists' = file_exists]_vars

\* a node removed by an edit of its parent is looked up while a ghost is
\* stored
C24_Witness ==
    /\ last.op = "get_node" /\ last.status = 404
    /\ last.node_id \in 1..(next_node_id - 1)
    /\ ghost_branches # EmptyMap

----------------------------------------------------------------------------
(* Subtree traversals *)

\* no children list of the tree holds an id twice
NoRepeatedChild(tree) ==
    \A n \in DOMAIN tree :
        \A i, j \in DOMAIN tree[n].children :
            tree[n].children[i] = tree[n].children[j] => i = j

\* the list s without the entries equal to x
Without(s, x) ==
    LET Other(c) == c # x IN SelectSeq(s, Other)

\* C27: remove_subtree(tree, x, preserve_root = true) leaves x stored with
\* an empty children list and none of its former descendants stored; with
\* preserve_root = false x is removed too and its id is gone from the
\* children of its former parent; every node outside the subtree of x is
\* kept as it was, the children list of the parent of x excepted
C27_RemoveSubtree ==
    (/\ trav.op = "remove" /\ trav.status = "returned"
     /\ trav.node_id \in DOMAIN trav.tree
     /\ NoRepeatedChild(trav.tree))
    => LET x == trav.node_id
           before == trav.tree
           after == trav.result
           descendants == DescendantsOf(before, x)
           parent_id == before[x].parent_id
       IN  /\ descendants \cap DOMAIN after = {}
           /\ IF trav.preserve_root
              THEN /\ x \in DOMAIN after
                   /\ after[x] = [before[x] EXCEPT !.children = <<>>]
              ELSE x \notin DOMAIN after
           /\ \A n \in DOMAIN before \ (descendants \cup {x}) :
                 /\ n \in DOMAIN after
                 /\ IF n = parent_id /\ ~trav.preserve_root
                    THEN after[n] = [before[n] EXCEPT
                                        !.children = Without(@, x)]
                    ELSE after[n] = before[n]

\* a node under the topmost node of a tree of four has been removed together
\* with its two descendants: only its former parent is left
C27_Witness ==
    /\ trav.op = "remove" /\ trav.status = "returned"
    /\ ~trav.preserve_root
    /\ NoRepeatedChild(trav.tree)
    /\ trav.node_id \in DOMAIN trav.tree
    /\ trav.tree[trav.node_id].parent_id \in DOMAIN trav.result
    /\ Cardinality(DOMAIN trav.result) = 1
    /\ Cardinality(DOMAIN trav.tree) = 4

\* no id stands twice in the list s
NoDuplicates(s) == \A i, j \in DOMAIN s : s[i] = s[j] => i = j

C30_RemoveTerminates ==
    (trav.op = "remove") ~> (trav.status = "returned")

----------------------------------------------------------------------------
(* Where ghosts come from, where nodes go *)

\* C31: the ghost store gains a record only in a successful edit that asked
\* for a ghost of a node that has children; a chat, an edit of a leaf, an
\* edit without create_ghost, a restore and a delete never add one
C31_GhostOnlyFromPreservingEdit ==
    [][(DOMAIN ghost_branches' \ DOMAIN LoadGhosts # {})
          => /\ last'.op = "edit" /\ last'.status = 200
             /\ last'.children_ghosted
             /\ DOMAIN ghost_branches' \ DOMAIN LoadGhosts = {last'.ghost_id}
             /\ \E n \in DOMAIN LoadNodes :
                   /\ edits_applied' = Put(edits_applied, n, Applied(n) + 1)
                   /\ LoadNodes[n].children # <<>>
                   /\ ghost_branches'[last'.ghost_id].original_node_id = n]_vars

\* a second ghost has been added by an edit, after chats and an edit of a
\* leaf or without create_ghost added none
C31_Witness ==
    /\ last.op = "edit" /\ last.children_ghosted
    /\ Cardinality(DOMAIN ghost_branches) = 2
    /\ Cardinality(DOMAIN pre.ghost_branches) = 1

\* C32: an edit of node x leaves x in the live store with its id and its
\* parent_id; a live node leaves the store only in a reset of the tree or in
\* an edit of one of its proper ancestors
C32_EditKeepsNode ==
    [][/\ (last'.op = "edit" /\ last'.status = 200)
            => \E x \in DOMAIN LoadNodes :
                  /\ edits_applied' = Put(edits_applied, x, Applied(x) + 1)
                  /\ x \in DOMAIN nodes'
                  /\ nodes'[x].id = LoadNodes[x].id
                  /\ nodes'[x].parent_id = LoadNodes[x].parent_id
       /\ \A n \in DOMAIN LoadNodes \ DOMAIN nodes' :
             \/ last'.op = "reset" /\ last'.status = 200
             \/ /\ last'.op = "edit" /\ last'.status = 200
                /\ \E x \in DOMAIN LoadNodes \ {n} :
                      /\ edits_applied' = Put(edits_applied, x, Applied(x) + 1)
                      /\ n \in DescendantsOf(LoadNodes, x)
                      /\ x \in ParentClosure(LoadNodes, {n})]_vars

\* an edit of a node with a parent and a child has removed the child and
\* kept the node under its parent
C32_Witness ==
    /\ last.op = "edit" /\ last.status = 200
    /\ DOMAIN pre.nodes \ DOMAIN nodes # {}
    /\ \E x \in DOMAIN nodes :
          /\ nodes[x].parent_id \in DOMAIN nodes
          /\ Len(nodes[x].edit_history) = 1
          /\ pre.nodes[x].children # <<>>
          /\ nodes[x].children = <<>>

\* C33: a restore never overwrites a live node record: in every state no node
\* id held in a ghost, the ghost's anchor excepted, is a key of the live
\* store, and a restore leaves every node that was live as it was, except
\* for the children list of the anchor
C33_RestoreOverwritesNothing ==
    /\ [](\A g \in DOMAIN ghost_branches :
             (DOMAIN ghost_branches[g].nodes \ {ghost_branches[g].original_node_id})
                 \cap DOMAIN nodes = {})
    /\ [][(last'.op = "restore" /\ last'.status = 200)
          => \A g \in DOMAIN LoadGhosts \ DOMAIN ghost_branches' :
                LET anchor == LoadGhosts[g].original_node_id IN
                \A n \in DOMAIN LoadNodes :
                    /\ n \in DOMAIN nodes'
                    /\ IF n = anchor
                       THEN nodes'[n] = [LoadNodes[n] EXCEPT
                                            !.children = nodes'[n].children]
                       ELSE nodes'[n] = LoadNodes[n]]_vars

\* a ghost has been restored under its anchor, whose content the edit had
\* changed, while another node was live
C33_Witness ==
    /\ last.op = "restore" /\ last.status = 200
    /\ \E g \in DOMAIN pre.ghost_branches \ DOMAIN ghost_branches :
          LET anchor == pre.ghost_branches[g].original_node_id IN
          /\ nodes[anchor].user_input # pre.ghost_branches[g].nodes[anchor].user_input
          /\ DOMAIN nodes \ DOMAIN pre.nodes # {}
          /\ DOMAIN pre.nodes \ {anchor} # {}

----------------------------------------------------------------------------
(* TreeMemoryManager *)

\* C34: an edit of node A with create_ghost followed by the restore of the
\* ghost it returned gives A the children list it had before the edit, and
\* every former descendant of A is live again with the children list it had
C34_ManagerEditThenRestore ==
    [][(/\ mgr.result.op = "edit" /\ mgr.result.status = "ok"
        /\ mgr.result.ghost_id # None
        /\ mgr'.result.op = "restore" /\ mgr'.result.status = "ok"
        /\ mgr'.result.ghost_id = mgr.result.ghost_id)
       => LET A == mgr.result.node_id
              before == mgr.before.nodes
              after == ManagerNodes(mgr')
          IN  /\ after[A].children = before[A].children
              /\ \A d \in DescendantsOf(before, A) :
                    /\ d \in DOMAIN after
                    /\ after[d].children = before[d].children]_vars

\* C35: a restore that succeeds removes the ghost record from ghost_branches
C35_ManagerRestoreRemovesGhost ==
    [][(mgr'.result.op = "restore" /\ mgr'.result.status = "ok" /\ mgr' # mgr)
       => mgr'.result.ghost_id \notin DOMAIN mgr'.ghosts]_vars

\* C36: no operation on the live tree changes the nodes held in a record of
\* ghost_branches: a ghost that is stored before and after a step holds the
\* same nodes
C36_ManagerGhostsIndependent ==
    [][\A g \in DOMAIN mgr.ghosts \cap DOMAIN mgr'.ghosts :
          ManagerGhosts(mgr')[g] = ManagerGhosts(mgr)[g]]_vars

\* C37: an add_conversation, edit_node, restore_ghost_branch or
\* delete_ghost_branch that runs while the files cannot be written does not
\* report success, and afterwards the tree and the ghosts in memory are the
\* ones in the files
C37_ManagerSaveFailureReported ==
    [][(/\ mgr' # mgr
        /\ disk # "ok"
        /\ mgr'.result.op \in {"add", "edit", "restore", "delete"}
        /\ mgr'.result.status # "ValueError")
       => /\ mgr'.result.status # "ok"
          /\ ManagerNodes(mgr') = mgr'.tree_file.nodes
          /\ ManagerGhosts(mgr') = mgr'.ghost_file.ghosts]_vars

\* C39: a reset leaves the live store empty, root_id unset and no ghost
\* branch: through the routes the stored document has no node, no root and
\* no ghost, the listing that follows is empty and the get, restore or delete
\* of a ghost id that follows answers 404; through the manager the tree, the
\* ghost store and both files are empty and a restore or delete that follows
\* raises ValueError. A ghost id issued earlier that is not in the store is
\* never in the store again, so the ids from before a reset stay unknown.
C39_ResetClearsEverything ==
    [][/\ (last'.op = "reset" /\ last'.status = 200)
            => /\ LoadNodes' = EmptyMap
               /\ LoadRootId' = None
               /\ LoadGhosts' = EmptyMap
       /\ (last.op = "reset" /\ last.status = 200 /\ last'.op = "list_ghosts")
            => DOMAIN pre'.ghost_branches = {}
       /\ (/\ last.op = "reset" /\ last.status = 200
           /\ last'.op \in {"get_ghost", "restore", "delete_ghost"})
            => last'.status = 404
       /\ \A g \in 1..(next_ghost_id - 1) :
             g \notin DOMAIN LoadGhosts => g \notin DOMAIN LoadGhosts'
       /\ (mgr'.result.op = "reset")
            => /\ ManagerNodes(mgr') = EmptyMap
               /\ mgr'.root_id = None
               /\ ManagerGhosts(mgr') = EmptyMap
               /\ mgr'.tree_file.nodes = EmptyMap
               /\ mgr'.ghost_file.ghosts = EmptyMap
       /\ (/\ mgr.result.op = "reset"
           /\ mgr'.result.op \in {"restore", "delete"})
            => mgr'.result.status = "ValueError"
       /\ \A g \in 1..(mgr.next_ghost_id - 1) :
             g \notin DOMAIN mgr.ghosts => g \notin DOMAIN mgr'.ghosts]_vars

\* a ghost was stored, the tree was reset (no node is left of a tree that was
\* edited), and a restore that followed was answered with 404
C39_Witness ==
    /\ next_ghost_id > 1
    /\ edit_count > 0
    /\ LoadNodes = EmptyMap
    /\ pre.ghost_branches = EmptyMap
    /\ last.op = "restore"
    /\ last.status = 404

----------------------------------------------------------------------------
(* The while loop of build_conversation_context *)

\* C38: every call of build_conversation_context returns a context, whatever
\* the parent_id links of the stored tree are, a cycle included
C38_ContextTerminates ==
    <>(trav.status = "returned")

----------------------------------------------------------------------------
(* The turns of the REPL *)

\* C40: in a turn of the loop of main() an entry is appended to the log and
\* the memory saved if and only if the line was not empty and the query of the
\* model succeeded: then the log is the old log with the new entry at its
\* end, trimmed, and the memory file holds it; after an empty line or an
\* OllamaConnectionError the log and the memory file are as they were; in
\* both cases the loop goes on, and it is left only on "exit" (or Ctrl+C)
C40_LoggedIffAnswered ==
    /\ [][\A line \in ReplInputs, generated \in BOOLEAN :
             repl_interaction(line, generated)
                => LET succeeded == Strip(line) # <<>> /\ generated
                   IN  /\ succeeded <=> (repl'.log # repl.log)
                       /\ succeeded <=> (repl'.file # repl.file)
                       /\ succeeded
                            => /\ repl'.log = TrimLog(Append(repl.log, repl.said + 1))
                               /\ repl'.file.exists /\ ~repl'.file.corrupt
                               /\ repl'.file.log = repl'.log
                               /\ repl'.error = "none"
                       /\ ~succeeded
                            => repl'.error = IF Strip(line) = <<>>
                                             THEN "empty" ELSE "ollama"
                       /\ repl'.running]_vars
    /\ [][(repl.running /\ ~repl'.running) => repl_exit]_vars

\* an answer was logged and saved, then a query failed: the log and the
\* memory file still hold the one entry, and the loop is running
C40_Witness ==
    /\ repl.running
    /\ repl.error = "ollama"
    /\ repl.said = 1
    /\ repl.log = <<1>>
    /\ repl.file.log = <<1>>

====
